---------------------------- MODULE Spec2Model ----------------------------
(***************************************************************************)
(* Transfer protocol of CrossOSClipboard (Windows peer): ByteUtils,        *)
(* ClipboardEncryption and MessageProtocol.                                *)
(*                                                                         *)
(* Bytes are integers 0..255 and byte strings are sequences, indexed from  *)
(* 1 (the C++ index k is the TLA+ index k+1).                              *)
(*                                                                         *)
(* The CNG primitives the code calls (HMAC-SHA-256, AES-256-GCM, the       *)
(* system RNG) are modelled as an ideal keyed MAC / stream cipher over     *)
(* bytes: HMAC_SHA256, GcmEncrypt, GcmDecrypt.  They are assumed not to    *)
(* fail for lack of resources; a tag verification failure is modelled.     *)
(***************************************************************************)
EXTENDS Integers, Sequences, FiniteSets, TLC

VARIABLES
    symmetricKey,              \* ClipboardEncryption::symmetricKey (<<>> = absent)
    nextTransferId,            \* MessageProtocol::nextTransferId
    partialMessages,           \* MessageProtocol::partialMessages   (id -> chunks)
    partialMessageTimestamps,  \* MessageProtocol::partialMessageTimestamps
    now,                       \* system clock read by getCurrentTimeMillis
    crashed,                   \* the process has left normal operation
    wire,                      \* frames returned by the latest encodeMessage
    cipher,                    \* envelope kept by the caller of encrypt
    activePassword,            \* history: the passphrase last accepted since the last clear
    last,                      \* the latest call, its arguments and its result
    delivered,                 \* history: transfer ids decodeData has returned a Message for
    hasSubscribedClients,      \* BLEManager::hasSubscribedClients
    wakeupCharacteristicRef,   \* BLEManager::wakeupCharacteristicRef is non-null
    lastClientResponse,        \* BLEManager::lastClientResponse
    waitingForResponse,        \* BLEManager::waitingForResponse
    counter,                   \* static counter of sendWakeupAndWaitForResponse
    hsPc,                      \* position of the thread in sendWakeupAndWaitForResponse
    hsDeadline,                \* timeoutMilliseconds have passed since startTime
    heard,                     \* history: response codes stored since the call's reset
    wakeupsSent,               \* history: wakeup notifications handed to NotifyValueAsync
    hPc,                       \* position of the write-request completion handler
    hData,                     \* rawData of the write being handled
    hWritten,                  \* history: where the call stood when it was written
    smPc,                      \* position of the thread in sendMessage
    encodedChunks,             \* sendMessage: the frames to send
    smI,                       \* sendMessage: index i of the frame loop
    smIt,                      \* sendMessage: iterator over pendingOps (1-based)
    pendingOps,                \* sendMessage: the operations in flight, by frame index
    opStatus,                  \* status and results of each operation in flight
    smDeadline,                \* the 5 s of the final wait have passed
    submitted,                 \* history: frame indices handed to NotifyValueAsync
    afterLoss,                 \* history: frames submitted since the flag turned false (-1: it did not)
    drainFailure,              \* history: the final wait saw a failed operation
    delayBetweenChunks,        \* sendMessage: ms slept between frames
    totalBytesSent,            \* sendMessage: bytes of the frames submitted
    measured,                  \* history: elapsed ms of the latest speed calculation
    tcpPc,                     \* position of a handleClient thread in its receive loop
    messageBuffer,             \* handleClient: bytes accumulated and not yet decoded
    sentFrames,                \* history: the frames the peer wrote to the connection
    arrived,                   \* history: how many of the peer's bytes recv has returned
    received,                  \* history: the calls of messageCallback, in order
    aligned,                   \* history: every recv so far returned exactly one frame
    inside,                    \* per thread: the MessageProtocol function it is executing
    decodeMutex,               \* holder of decodeMutex of the BLE write handler
    raced,                     \* per thread: another thread was inside during its call
    genPc,                     \* per thread: position in generateTransferId
    genId,                     \* per thread: local id of generateTransferId
    genTmp,                    \* per thread: value read by nextTransferId++
    issued,                    \* history: the ids encodeMessage calls obtained, in order
    clipboard,                 \* the system clipboard: [format, data]
    updates,                   \* WM_CLIPBOARDUPDATE messages queued for the window,
                               \* each with the change that caused it
    changes,                   \* history: clipboard changes made so far
    ignoreNextChange,          \* ClipboardManager::ignoreNextChange
    lastContentHash,           \* ClipboardManager::lastContentHash
    clipboardMutex,            \* ClipboardManager::clipboardMutex: "free" or its holder
    applyPc,                   \* processRemoteMessage: position of the handler thread
    applyMsg,                  \* processRemoteMessage: data and contentType
    wndPc,                     \* ClipboardWndProc: position of the window thread
    wndCause,                  \* history: what caused the message being handled
    callbacks,                 \* history: updateCallback invocations
    ignoredCauses              \* history: causes of the messages that were ignored

vars == <<symmetricKey, nextTransferId, partialMessages, partialMessageTimestamps,
          now, crashed, wire, cipher, activePassword, last, delivered,
          hasSubscribedClients, wakeupCharacteristicRef, lastClientResponse,
          waitingForResponse, counter, hsPc, hsDeadline, heard, wakeupsSent,
          hPc, hData, hWritten, smPc, encodedChunks, smI, smIt, pendingOps, opStatus,
          smDeadline, submitted, afterLoss, drainFailure, delayBetweenChunks,
          totalBytesSent, measured, tcpPc, messageBuffer,
          sentFrames, arrived, received, aligned, inside, decodeMutex, raced,
          genPc, genId, genTmp, issued,
          clipboard, updates, changes, ignoreNextChange, lastContentHash,
          clipboardMutex, applyPc, applyMsg, wndPc, wndCause, callbacks,
          ignoredCauses>>

\* the state of the wakeup handshake and of the write handler
wakeVars == <<wakeupCharacteristicRef, lastClientResponse, waitingForResponse,
              counter, hsPc, hsDeadline, heard, wakeupsSent, hPc, hData, hWritten>>

\* the state of a sendMessage call
\* the pacing locals of a sendMessage call
paceVars == <<delayBetweenChunks, totalBytesSent, measured>>

sendVars == <<smPc, encodedChunks, smI, smIt, pendingOps, opStatus, smDeadline,
              submitted, afterLoss, drainFailure, paceVars>>

bleVars == <<hasSubscribedClients, wakeVars, sendVars>>

\* the state of one TCP connection and of its handleClient thread
netVars == <<tcpPc, messageBuffer, sentFrames, arrived, received, aligned>>

\* threads inside MessageProtocol: decodeData, cleanupPartialMessages and
\* generateTransferId
threadVars == <<inside, decodeMutex, raced, genPc, genId, genTmp, issued>>

\* the clipboard and the two threads of ClipboardManager
clipVars == <<clipboard, updates, changes, ignoreNextChange, lastContentHash,
              clipboardMutex, applyPc, applyMsg, wndPc, wndCause, callbacks,
              ignoredCauses>>

appVars == <<netVars, threadVars, clipVars>>

NULL == [none |-> TRUE]

-----------------------------------------------------------------------------
(* Program constants *)

HEADER_SIZE == 19
BLE_MAX_CHUNK_SIZE == 512
PROTOCOL_VERSION == 1
NonceLen == 12
TagLen == 16
KeyLen == 32
PARTIAL_MAX_AGE == 30000
MinEnvelopeLen == 29

(* Bounds of the model *)
MaxTransfers == 2     \* encodeMessage calls explored
MaxStored == 3        \* chunks held by the reassembly table
MaxTime == 1          \* clock ticks explored
MaxTamper == 2        \* byte deltas 1..MaxTamper and 256-MaxTamper..255 are tried
MaxWakeups == 2       \* sendWakeupAndWaitForResponse calls that advance the counter
MaxHeard == 2         \* response codes processed during one call
MaxOffset == 5        \* offsets given to the byte decoders
MaxSent == 2          \* frames a peer writes to one TCP connection

Byte == 0..255

\* threads that deliver inbound data: two BLE write completions and the
\* handleClient threads of two connections
BleThreads == {"bleWrite1", "bleWrite2"}
TcpThreads == {"tcpClient1", "tcpClient2"}
DecodeThreads == BleThreads \cup TcpThreads

\* threads that send: the window-message thread (clipboard change) and the
\* accept thread (client connected)
EncodeThreads == {"windowMessage", "acceptClient"}
TCP == "TCP"
BLE == "BLE"

-----------------------------------------------------------------------------
(* Sequence helpers *)

Min(a, b) == IF a < b THEN a ELSE b

\* the C++ range [from, to) of a vector, 0-based
Slice(s, from, to) == IF to <= from THEN <<>> ELSE SubSeq(s, from + 1, to)

RECURSIVE ByteSum(_, _, _)
ByteSum(s, lo, hi) ==
    IF lo > hi THEN 0
    ELSE IF lo = hi THEN s[lo]
    ELSE LET mid == (lo + hi) \div 2
         IN  ByteSum(s, lo, mid) + ByteSum(s, mid + 1, hi)

RECURSIVE WeightedSum(_, _, _)
WeightedSum(s, lo, hi) ==
    IF lo > hi THEN 0
    ELSE IF lo = hi THEN s[lo] * (2 * lo + 1)
    ELSE LET mid == (lo + hi) \div 2
         IN  WeightedSum(s, lo, mid) + WeightedSum(s, mid + 1, hi)

RECURSIVE Concat(_)
Concat(ss) == IF ss = <<>> THEN <<>> ELSE Head(ss) \o Concat(Tail(ss))

Fill(n, pattern) == [i \in 1..n |-> pattern[((i - 1) % Len(pattern)) + 1]]

-----------------------------------------------------------------------------
(* ByteUtils *)

\* A uint32_t is held as its two 16-bit halves where all 32 bits matter, and
\* as a number where it is below 2^31 (every header field of the frames
\* explored).  A size_t is a number; 2^w - k is held as -k, so that offset + 4
\* wraps as in the code.
U32(hi, lo) == [hi |-> hi, lo |-> lo]

Halves(value) == U32(value \div 65536, value % 65536)

Number(w) == w.hi * 65536 + w.lo

\* a < b on size_t
sizeLess(a, b) ==
    IF (a < 0) = (b < 0) THEN a < b ELSE b < 0

\* variant: least significant byte first
uint32ToBytesU_littleEndian(value) ==
    << value.lo % 256, (value.lo \div 256) % 256,
       value.hi % 256, (value.hi \div 256) % 256 >>

\* uint32ToBytes on the halves: value >> 24 is hi >> 8, value >> 8 is lo >> 8
uint32ToBytesU(value) ==
    << (value.hi \div 256) % 256, value.hi % 256,
       (value.lo \div 256) % 256, value.lo % 256 >>

uint32ToBytes(value) == uint32ToBytesU(Halves(value))

uint16ToBytes(value) == << (value \div 256) % 256, value % 256 >>

\* the indices the conversion reads (C++ indices; negative: below the buffer)
ReadsOf(offset, width) == { offset + i : i \in 0..(width - 1) }

InBounds(bytes, reads) == \A i \in reads : i >= 0 /\ i < Len(bytes)

\* flag-returning overloads: [ok, value, reads]; value is the caller's on
\* failure, and stands for an indeterminate value when reads leave the vector
bytesToUint32U(bytes, offset, value) ==
    IF sizeLess(Len(bytes), offset + 4)
    THEN [ok |-> FALSE, value |-> value, reads |-> {}]
    ELSE LET reads == ReadsOf(offset, 4)
         IN  [ok |-> TRUE,
              value |-> IF InBounds(bytes, reads)
                        THEN U32(bytes[offset + 1] * 256 + bytes[offset + 2],
                                 bytes[offset + 3] * 256 + bytes[offset + 4])
                        ELSE value,
              reads |-> reads]

bytesToUint32Checked(bytes, offset, value) ==
    LET r == bytesToUint32U(bytes, offset, Halves(value))
    IN  [ok |-> r.ok, value |-> Number(r.value)]

bytesToUint16Checked(bytes, offset, value) ==
    IF sizeLess(Len(bytes), offset + 2)
    THEN [ok |-> FALSE, value |-> value, reads |-> {}]
    ELSE LET reads == ReadsOf(offset, 2)
         IN  [ok |-> TRUE,
              value |-> IF InBounds(bytes, reads)
                        THEN bytes[offset + 1] * 256 + bytes[offset + 2]
                        ELSE value,
              reads |-> reads]

\* convenience overloads: value starts at 0 and the flag is dropped
bytesToUint32U0(bytes, offset) == bytesToUint32U(bytes, offset, U32(0, 0)).value

bytesToUint32(bytes, offset) == bytesToUint32Checked(bytes, offset, 0).value

bytesToUint16(bytes, offset) == bytesToUint16Checked(bytes, offset, 0).value

-----------------------------------------------------------------------------
(* ClipboardEncryption: primitives *)

\* "P2PClipboardSyncSalt2025"
saltString == <<80, 50, 80, 67, 108, 105, 112, 98, 111, 97, 114, 100,
                83, 121, 110, 99, 83, 97, 108, 116, 50, 48, 50, 53>>

\* "P2PClipboardEncryptionContext"
infoString == <<80, 50, 80, 67, 108, 105, 112, 98, 111, 97, 114, 100,
                69, 110, 99, 114, 121, 112, 116, 105, 111, 110,
                67, 111, 110, 116, 101, 120, 116>>

\* ideal keyed hash with a 32-byte output
HMAC_SHA256(key, data) ==
    LET k == (WeightedSum(key, 1, Len(key)) + 3 * Len(key)) % 251
        d == (WeightedSum(data, 1, Len(data)) + 5 * Len(data)) % 241
    IN  [j \in 1..KeyLen |-> (k * 7 + d * 13 + k * d + j * j * 3 + j) % 256]

deriveSymmetricKey(password) ==
    LET prk == HMAC_SHA256(saltString, password)
        lastT == HMAC_SHA256(prk, Append(infoString, 1))
    IN  lastT

\* ideal AES-256-GCM, no associated data, 12-byte nonce, 16-byte tag
GcmKeystream(key, nonce, i) ==
    (key[((i - 1) % KeyLen) + 1] + nonce[((i - 1) % NonceLen) + 1] + i) % 256

GcmTag(key, nonce, ct) ==
    LET n == WeightedSum(nonce, 1, Len(nonce)) % 256
        c == ByteSum(ct, 1, Len(ct)) + Len(ct)
    IN  [j \in 1..TagLen |-> (key[j] + 2 * key[j + TagLen] + n * j + c) % 256]

GcmEncrypt(key, nonce, pt) ==
    LET ct == [i \in 1..Len(pt) |-> (pt[i] + GcmKeystream(key, nonce, i)) % 256]
    IN  [ciphertext |-> ct, tag |-> GcmTag(key, nonce, ct)]

GcmDecrypt(key, nonce, ct, tag) ==
    IF GcmTag(key, nonce, ct) # tag
    THEN [ok |-> FALSE, plaintext |-> <<>>]
    ELSE [ok |-> TRUE,
          plaintext |-> [i \in 1..Len(ct) |->
                            (ct[i] + 256 - GcmKeystream(key, nonce, i)) % 256]]

-----------------------------------------------------------------------------
(* ClipboardEncryption: operations as functions of the key *)

isPasswordSet == symmetricKey # <<>>

\* variant: a missing key is not detected and an all-zero key is used
encrypt_keyNotChecked(key, nonce, data) ==
    LET k == IF key = <<>> THEN [j \in 1..KeyLen |-> 0] ELSE key
        r == GcmEncrypt(k, nonce, data)
    IN  nonce \o r.ciphertext \o r.tag

\* variant: the tag is written before the ciphertext
encrypt_tagFirst(key, nonce, data) ==
    IF key = <<>> THEN <<>>
    ELSE LET r == GcmEncrypt(key, nonce, data)
         IN  nonce \o r.tag \o r.ciphertext

\* variant: the status of the final BCryptDecrypt is not looked at
decrypt_statusIgnored(key, encryptedData) ==
    IF key = <<>> THEN <<>>
    ELSE IF Len(encryptedData) < MinEnvelopeLen THEN <<>>
    ELSE LET n == Len(encryptedData)
             nonce == Slice(encryptedData, 0, NonceLen)
             ciphertext == Slice(encryptedData, NonceLen, n - TagLen)
         IN  [i \in 1..Len(ciphertext) |->
                 (ciphertext[i] + 256 - GcmKeystream(key, nonce, i)) % 256]

\* encrypt under key with the nonce the RNG returned; <<>> is failure
encrypt(key, nonce, data) ==
    IF key = <<>> THEN <<>>
    ELSE LET r == GcmEncrypt(key, nonce, data)
         IN  nonce \o r.ciphertext \o r.tag

decrypt(key, encryptedData) ==
    IF key = <<>> THEN <<>>
    ELSE IF Len(encryptedData) < MinEnvelopeLen THEN <<>>
    ELSE LET n == Len(encryptedData)
             nonce == Slice(encryptedData, 0, NonceLen)
             tag == Slice(encryptedData, n - TagLen, n)
             ciphertext == Slice(encryptedData, NonceLen, n - TagLen)
             r == GcmDecrypt(key, nonce, ciphertext, tag)
         IN  IF r.ok THEN r.plaintext ELSE <<>>

-----------------------------------------------------------------------------
(* MessageProtocol: framing *)

\* (b & 0xC0) == 0x80
IsContinuation(b) == b \in 128..191

\* the inner while loop of chunkedData: endPos is decremented while it is
\* above position and data[endPos] is a continuation byte; the result is the
\* greatest e in position..endPos that stops the loop
backOff(data, position, endPos) ==
    CHOOSE e \in position..endPos :
        /\ e = position \/ ~IsContinuation(data[e + 1])
        /\ \A f \in (e + 1)..endPos : IsContinuation(data[f + 1])

\* chunkedData from a position on.  An empty chunk leaves position where it
\* was, so the outer loop never ends: diverges.
RECURSIVE chunkedFrom(_, _, _)
chunkedFrom(data, chunkSize, position) ==
    IF ~(position < Len(data)) THEN [diverges |-> FALSE, chunks |-> <<>>]
    ELSE LET limit == Min(position + chunkSize, Len(data))
             endPos == IF limit < Len(data) THEN backOff(data, position, limit)
                       ELSE limit
         IN  IF endPos = position THEN [diverges |-> TRUE, chunks |-> <<>>]
             ELSE LET rest == chunkedFrom(data, chunkSize, endPos)
                  IN  [diverges |-> rest.diverges,
                       chunks |-> <<Slice(data, position, endPos)>> \o rest.chunks]

\* variant: a chunk may hold one byte more than chunkSize
chunkedData_oneMore(data, chunkSize) == chunkedFrom(data, chunkSize + 1, 0)

chunkedData(data, chunkSize) == chunkedFrom(data, chunkSize, 0)

\* header fields followed by the payload
Frame(length, version, contentType, transferId, chunkIndex, totalChunks, payload) ==
    uint32ToBytes(length) \o uint16ToBytes(version) \o <<contentType>>
    \o uint32ToBytes(transferId) \o uint32ToBytes(chunkIndex)
    \o uint32ToBytes(totalChunks) \o payload

\* encodeMessage with transferId already drawn and nonce the RNG's answer:
\* [diverges, frames, envelope]; no frames is failure
encodeMessage(key, transferId, nonce, contentType, payload, transport) ==
    LET encryptedPayload == encrypt(key, nonce, payload)
    IN  IF encryptedPayload = <<>>
        THEN [diverges |-> FALSE, frames |-> <<>>, envelope |-> encryptedPayload]
        ELSE IF transport = TCP
        THEN [diverges |-> FALSE,
              frames |-> << Frame(HEADER_SIZE + Len(payload), PROTOCOL_VERSION,
                                  contentType, transferId, 0, 1, payload) >>,
              envelope |-> encryptedPayload]
        ELSE LET c == chunkedData(payload, BLE_MAX_CHUNK_SIZE)
                 totalChunks == Len(c.chunks)
             IN  [diverges |-> c.diverges,
                  frames |-> [index \in 1..totalChunks |->
                                 Frame(HEADER_SIZE + Len(c.chunks[index]),
                                       PROTOCOL_VERSION, contentType, transferId,
                                       index - 1, totalChunks, c.chunks[index])],
                  envelope |-> encryptedPayload]

-----------------------------------------------------------------------------
(* MessageProtocol: reassembly table *)

Has(m, k) == k \in DOMAIN m

Put(m, k, v) == [x \in (DOMAIN m) \cup {k} |-> IF x = k THEN v ELSE m[x]]

\* a map emptied where one key was to go
Erase_everything(m, k) == [x \in {} |-> m[x]]

Erase(m, k) == [x \in (DOMAIN m) \ {k} |-> m[x]]

\* operator[] of std::map: a missing key reads as an empty vector
ChunksOf(m, k) == IF Has(m, k) THEN m[k] ELSE <<>>

\* what std::sort by chunkIndex may leave: every ordering of the chunks that
\* ascends in chunkIndex (the order of equal indices is unspecified)
SortOutcomes(chunks) ==
    LET n == Len(chunks)
        perms == { p \in [1..n -> 1..n] : \A i, j \in 1..n : i # j => p[i] # p[j] }
    IN  { [i \in 1..n |-> chunks[p[i]]] :
            p \in { q \in perms : \A i \in 1..n : i < n =>
                        chunks[q[i]].chunkIndex <= chunks[q[i + 1]].chunkIndex } }

Payloads(chunks) == Concat([i \in 1..Len(chunks) |-> chunks[i].payload])

Message(contentType, transferId, payload) ==
    [contentType |-> contentType, transferId |-> transferId, payload |-> payload]

\* variant: on a decryption failure the received bytes are returned as payload
decryptedMessage_fallback(contentType, transferId, payload, decryptedPayload) ==
    IF decryptedPayload # <<>>
    THEN Message(contentType, transferId, decryptedPayload)
    ELSE Message(contentType, transferId, payload)

\* the Message returned after decrypt, nullptr (NULL) when decrypt failed
decryptedMessage(contentType, transferId, payload, decryptedPayload) ==
    IF decryptedPayload # <<>>
    THEN Message(contentType, transferId, decryptedPayload)
    ELSE NULL

DecodeResult(data, result, handed) ==
    [op |-> "decodeData", data |-> data, keyBefore |-> symmetricKey,
     result |-> result, handed |-> handed]

\* the same for a reassembly; chunks is partialMessages[transferId] as it was
\* concatenated
ReassemblyResult(data, result, handed, chunks) ==
    [op |-> "decodeData", data |-> data, keyBefore |-> symmetricKey,
     result |-> result, handed |-> handed, chunks |-> chunks]

\* variant: the lower bound of the range check is off by one
isValidContentType_zeroAccepted(typeRaw) == ~(typeRaw < 0 \/ typeRaw > 6)

isValidContentType(typeRaw) == ~(typeRaw < 1 \/ typeRaw > 6)

\* history of the Messages returned: the ids returned once, and those returned
\* more than once
Returned(d, result) ==
    IF result = NULL THEN d
    ELSE [once  |-> d.once \cup {result.transferId},
          again |-> d.again \cup (d.once \cap {result.transferId})]

\* decodeData(data); handed records the bytes given to decrypt, if any
decodeData(data) ==
    /\ ~crashed
    /\ IF Len(data) < HEADER_SIZE
       THEN /\ last' = DecodeResult(data, NULL, NULL)
            /\ UNCHANGED <<partialMessages, partialMessageTimestamps>>
       ELSE
       LET length == bytesToUint32(data, 0)
           version == bytesToUint16(data, 4)
           typeRaw == data[7]
           transferId == bytesToUint32(data, 7)
           chunkIndex == bytesToUint32(data, 11)
           totalChunks == bytesToUint32(data, 15)
           payload == Slice(data, HEADER_SIZE, Len(data))
       IN
       IF ~isValidContentType(typeRaw)
       THEN /\ last' = DecodeResult(data, NULL, NULL)
            /\ UNCHANGED <<partialMessages, partialMessageTimestamps>>
       ELSE IF totalChunks = 1
       THEN LET decryptedPayload == decrypt(symmetricKey, payload)
            IN  /\ last' = DecodeResult(data,
                              decryptedMessage(typeRaw, transferId, payload,
                                               decryptedPayload),
                              payload)
                /\ UNCHANGED <<partialMessages, partialMessageTimestamps>>
       ELSE
       LET chunk == [contentType |-> typeRaw, transferId |-> transferId,
                     chunkIndex |-> chunkIndex, totalChunks |-> totalChunks,
                     payload |-> IF version = 1 THEN Slice(data, 19, Len(data))
                                 ELSE Slice(data, HEADER_SIZE, Len(data))]
           stored == Append(ChunksOf(partialMessages, transferId), chunk)
           stamped == Put(partialMessageTimestamps, transferId, now)
       IN
       IF Len(stored) = totalChunks
       THEN \E sorted \in SortOutcomes(stored) :
               LET fullPayload == Payloads(sorted)
                   decryptedPayload == decrypt(symmetricKey, fullPayload)
                   message == decryptedMessage(typeRaw, transferId, fullPayload,
                                               decryptedPayload)
               IN  IF message # NULL
                   THEN /\ last' = ReassemblyResult(data, message, fullPayload, sorted)
                        /\ partialMessages' = Erase(partialMessages, transferId)
                        /\ partialMessageTimestamps' = Erase(stamped, transferId)
                   ELSE /\ last' = ReassemblyResult(data, NULL, fullPayload, sorted)
                        /\ partialMessages' = Put(partialMessages, transferId, sorted)
                        /\ partialMessageTimestamps' = stamped
       ELSE /\ last' = DecodeResult(data, NULL, NULL)
            /\ partialMessages' = Put(partialMessages, transferId, stored)
            /\ partialMessageTimestamps' = stamped
    /\ UNCHANGED <<symmetricKey, activePassword, nextTransferId, now, crashed, cipher>>

-----------------------------------------------------------------------------
(* Inputs explored *)

\* "first", "second" and the empty passphrase
Passwords == { <<>>, <<102, 105, 114, 115, 116>>, <<115, 101, 99, 111, 110, 100>> }

\* values BCryptGenRandom may return for the nonce
Nonces == { [i \in 1..NonceLen |-> 0], [i \in 1..NonceLen |-> (37 * i) % 256] }

CryptoPayloads == { <<>>, <<5>>, <<10, 20, 30, 40>> }

TamperDeltas == (1..MaxTamper) \cup ((256 - MaxTamper)..255)

Tamper(s, i, d) == [s EXCEPT ![i] = (@ + d) % 256]

DecryptInputs ==
    { <<1, 2, 3>> } \cup
    ( IF cipher = NULL THEN {}
      ELSE { cipher.envelope, Slice(cipher.envelope, 0, Len(cipher.envelope) - 1) }
           \cup { Tamper(cipher.envelope, i, d) :
                    i \in 1..Len(cipher.envelope), d \in TamperDeltas } )

protoVars == <<nextTransferId, partialMessages, partialMessageTimestamps, now,
               crashed, wire>>

-----------------------------------------------------------------------------
(* ClipboardEncryption: calls *)

\* variant: the empty passphrase is not rejected
setPassword_emptyAccepted(password) ==
    /\ ~crashed
    /\ symmetricKey' = deriveSymmetricKey(password)
    /\ activePassword' = password
    /\ last' = [op |-> "setPassword", password |-> password,
                keyBefore |-> symmetricKey, result |-> TRUE]
    /\ UNCHANGED <<protoVars, cipher, delivered, bleVars, appVars>>

setPassword(password) ==
    /\ ~crashed
    /\ LET ok == password # <<>>
       IN  /\ symmetricKey' = IF ok THEN deriveSymmetricKey(password) ELSE symmetricKey
           /\ activePassword' = IF ok THEN password ELSE activePassword
           /\ last' = [op |-> "setPassword", password |-> password,
                       keyBefore |-> symmetricKey, result |-> ok]
    /\ UNCHANGED <<protoVars, cipher, delivered, bleVars, appVars>>

clearPassword ==
    /\ ~crashed
    /\ symmetricKey' = <<>>
    /\ activePassword' = <<>>
    /\ last' = [op |-> "clearPassword", keyBefore |-> symmetricKey]
    /\ UNCHANGED <<protoVars, cipher, delivered, bleVars, appVars>>

encryptCall(data, nonce) ==
    /\ ~crashed
    /\ last' = [op |-> "encrypt", data |-> data, keyBefore |-> symmetricKey,
                result |-> encrypt(symmetricKey, nonce, data)]
    /\ UNCHANGED <<symmetricKey, activePassword, protoVars, delivered, bleVars, appVars>>

decryptCall(data) ==
    /\ ~crashed
    /\ last' = [op |-> "decrypt", data |-> data, keyBefore |-> symmetricKey,
                result |-> decrypt(symmetricKey, data)]
    /\ UNCHANGED <<symmetricKey, activePassword, protoVars, cipher, delivered,
                   bleVars, appVars>>

\* the caller keeps the envelope it got (auto cipher = encrypt(data))
EncryptKeep ==
    \E data \in CryptoPayloads, nonce \in Nonces :
        /\ encryptCall(data, nonce)
        /\ cipher' = IF last'.result = <<>> THEN cipher
                     ELSE [envelope |-> last'.result, plaintext |-> data,
                           password |-> activePassword]

DecryptKept == \E data \in DecryptInputs : decryptCall(data)

SetPassword == \E password \in Passwords : setPassword(password)

ClearPassword == clearPassword

-----------------------------------------------------------------------------
(* ByteUtils: calls *)

\* 16-bit values tried, alone and as the halves of a 32-bit value
HalfSamples == {0, 1, 255, 256, 4660, 22136, 32767, 32768, 43981, 48879, 57005, 65535}

\* vectors given to the decoders: those of the tests and their prefixes
TestVectors ==
    { <<0, 0, 0, 1>>, <<255>>, <<222, 173, 190, 239>>, <<0, 2>>, <<170>>,
      <<254, 237>>, <<0, 17, 34, 51, 68>>, <<0, 170, 187>> }

ByteVectors == UNION { { SubSeq(v, 1, n) : n \in 0..Len(v) } : v \in TestVectors }

\* offsets: 0..MaxOffset, and the largest size_t values (2^w - k, held as -k)
Offsets == 0..MaxOffset \cup { -k : k \in 1..4 }

\* what an out-of-bounds read may give: any value, or an access violation
ReadOutcomes(bytes, r, samples) ==
    IF InBounds(bytes, r.reads) THEN {r.value} ELSE samples

BytesCall(record) ==
    /\ ~crashed
    /\ last' = record
    /\ UNCHANGED <<symmetricKey, activePassword, nextTransferId, partialMessages,
                   partialMessageTimestamps, now, wire, cipher, delivered,
                   bleVars, appVars>>

\* uint32ToBytes(value), and the bytes given back to bytesToUint32(bytes, 0)
Uint32ToBytes ==
    \E hi \in HalfSamples, lo \in HalfSamples :
        LET bytes == uint32ToBytesU(U32(hi, lo))
        IN  /\ BytesCall([op |-> "uint32ToBytes", value |-> U32(hi, lo),
                          result |-> bytes, back |-> bytesToUint32U0(bytes, 0)])
            /\ UNCHANGED crashed

Uint16ToBytes ==
    \E value \in HalfSamples :
        LET bytes == uint16ToBytes(value)
        IN  /\ BytesCall([op |-> "uint16ToBytes", value |-> value,
                          result |-> bytes, back |-> bytesToUint16(bytes, 0)])
            /\ UNCHANGED crashed

\* both overloads of bytesToUint32 on the same arguments; before is the
\* caller's value
BytesToUint32 ==
    \E bytes \in ByteVectors, offset \in Offsets,
       before \in {U32(0, 0), U32(65535, 65535)} :
        LET r == bytesToUint32U(bytes, offset, before)
            samples == {U32(0, 0), U32(57005, 48879)}
            r0 == bytesToUint32U(bytes, offset, U32(0, 0))
        IN  \E value \in ReadOutcomes(bytes, r, samples),
               plain \in ReadOutcomes(bytes, r0, samples),
               fault \in BOOLEAN :
                /\ BytesCall([op |-> "bytesToUint32", bytes |-> bytes,
                              offset |-> offset, before |-> before, ok |-> r.ok,
                              value |-> value, reads |-> r.reads,
                              plain |-> plain])
                /\ crashed' = (fault /\ ~InBounds(bytes, r.reads))

BytesToUint16 ==
    \E bytes \in ByteVectors, offset \in Offsets, before \in {0, 65535} :
        LET r == bytesToUint16Checked(bytes, offset, before)
            samples == {0, 43981}
            r0 == bytesToUint16Checked(bytes, offset, 0)
        IN  \E value \in ReadOutcomes(bytes, r, samples),
               plain \in ReadOutcomes(bytes, r0, samples),
               fault \in BOOLEAN :
                /\ BytesCall([op |-> "bytesToUint16", bytes |-> bytes,
                              offset |-> offset, before |-> before, ok |-> r.ok,
                              value |-> value, reads |-> r.reads,
                              plain |-> plain])
                /\ crashed' = (fault /\ ~InBounds(bytes, r.reads))

-----------------------------------------------------------------------------
(* MessageProtocol: calls *)

ContentTypes == 1..6

\* "Hello, world!"
HelloWorld == <<72, 101, 108, 108, 111, 44, 32, 119, 111, 114, 108, 100, 33>>

\* the messages handed to encodeMessage: every content type, with payloads that
\* are empty, short, longer than one BLE chunk (ASCII; 3-byte UTF-8 characters
\* that straddle the chunk boundary) and binary with a long run of bytes 0x80
Messages ==
    { [contentType |-> 1, payload |-> HelloWorld],
      [contentType |-> 2, payload |-> <<>>],
      [contentType |-> 3, payload |-> Fill(BLE_MAX_CHUNK_SIZE + 8, <<128>>)],
      [contentType |-> 4, payload |-> <<255, 216, 255>>],
      [contentType |-> 5, payload |-> Fill(BLE_MAX_CHUNK_SIZE + 1, <<65>>)],
      [contentType |-> 6, payload |-> Fill(BLE_MAX_CHUNK_SIZE + 4, <<226, 130, 172>>)] }

Transports == {TCP, BLE}

\* every frame of the latest encodeMessage has been given to decodeData
WireIdle == IF wire = NULL THEN TRUE ELSE wire.pending = {}

\* variant: the counter is not advanced
generateTransferId_notAdvanced == [id |-> nextTransferId, next |-> nextTransferId]

generateTransferId == [id |-> nextTransferId, next |-> nextTransferId + 1]

\* everything of the threads inside MessageProtocol except the history of ids
threadRest == <<inside, decodeMutex, raced, genPc, genId, genTmp>>

EncodeMessage ==
    \E m \in Messages, transport \in Transports, nonce \in Nonces :
        /\ ~crashed
        /\ nextTransferId < MaxTransfers
        /\ WireIdle
        /\ LET g == generateTransferId
               contentType == m.contentType
               payload == m.payload
               r == encodeMessage(symmetricKey, g.id, nonce, contentType, payload,
                                  transport)
           IN  /\ nextTransferId' = g.next
               /\ issued' = Append(issued, g.id)
               /\ crashed' = r.diverges
               /\ last' = [op |-> "encodeMessage", contentType |-> contentType,
                           payload |-> payload, transport |-> transport,
                           keyBefore |-> symmetricKey, transferId |-> g.id,
                           returned |-> ~r.diverges,
                           result |-> IF r.diverges THEN <<>> ELSE r.frames,
                           nonce |-> nonce]
               /\ wire' = IF r.diverges \/ r.frames = <<>> THEN NULL
                          ELSE [contentType |-> contentType, payload |-> payload,
                                transport |-> transport, frames |-> r.frames,
                                pending |-> 1..Len(r.frames)]
        /\ UNCHANGED <<symmetricKey, activePassword, partialMessages,
                       partialMessageTimestamps, now, cipher, delivered, bleVars,
                       netVars, clipVars, threadRest>>

\* the frames of the latest encodeMessage are given to decodeData, each once,
\* in any order
DeliverFrame ==
    /\ wire # NULL
    /\ \E i \in wire.pending :
          /\ decodeData(wire.frames[i])
          /\ wire' = [wire EXCEPT !.pending = @ \ {i}]
    /\ UNCHANGED <<delivered, bleVars, appVars>>

Encrypt ==
    \E data \in CryptoPayloads, nonce \in Nonces :
        encryptCall(data, nonce) /\ UNCHANGED cipher

Decrypt ==
    \E data \in CryptoPayloads \cup
                { encrypt(deriveSymmetricKey(pw), nonce, d) :
                     pw \in Passwords \ {<<>>}, nonce \in Nonces, d \in CryptoPayloads } :
        decryptCall(data)

-----------------------------------------------------------------------------
(* Frames arriving from a peer *)

\* a peer holding the passphrase "first" that frames as the wire format
\* prescribes: the envelope is split at byte counts, each part under a header
PeerPassword == <<102, 105, 114, 115, 116>>

PeerNonce == [i \in 1..NonceLen |-> (11 * i + 3) % 256]

RECURSIVE SplitBytes(_, _)
SplitBytes(bytes, size) ==
    IF Len(bytes) <= size THEN <<bytes>>
    ELSE <<Slice(bytes, 0, size)>> \o SplitBytes(Slice(bytes, size, Len(bytes)), size)

PeerFramesOf(contentType, transferId, payload) ==
    LET envelope == encrypt(deriveSymmetricKey(PeerPassword), PeerNonce, payload)
        parts == SplitBytes(envelope, BLE_MAX_CHUNK_SIZE)
    IN  [i \in 1..Len(parts) |->
            Frame(HEADER_SIZE + Len(parts[i]), PROTOCOL_VERSION, contentType,
                  transferId, i - 1, Len(parts), parts[i])]

PeerSingle == PeerFramesOf(1, 2, HelloWorld)

PeerDouble == PeerFramesOf(3, 0, Fill(BLE_MAX_CHUNK_SIZE - 20, <<137, 80, 78, 71>>))

WithContentType(frame, typeRaw) == [frame EXCEPT ![7] = typeRaw]

\* the same frame under another protocol version (bytes 4..5, big-endian)
WithVersion(frame, version) ==
    Slice(frame, 0, 4) \o uint16ToBytes(version) \o Slice(frame, 6, Len(frame))

\* the first chunk of a three-chunk transfer whose other chunks never arrive
PeerAbandoned ==
    Frame(HEADER_SIZE + 4, PROTOCOL_VERSION, 1, 1, 0, 3, <<1, 2, 3, 4>>)

ReceivedFrames ==
    { PeerSingle[1], PeerDouble[1], PeerDouble[2] }
    \cup { Tamper(PeerSingle[1], HEADER_SIZE + NonceLen + 1, 1),
           Tamper(PeerDouble[2], Len(PeerDouble[2]), 1) }
    \cup { <<>>, Slice(PeerSingle[1], 0, HEADER_SIZE - 1) }
    \cup { WithContentType(f, t) : f \in {PeerSingle[1], PeerDouble[1]}, t \in {0, 7} }
    \cup { WithVersion(f, 2) : f \in {PeerSingle[1], PeerDouble[1]} }

StoredChunks ==
    LET ids == DOMAIN partialMessages
        RECURSIVE Count(_)
        Count(S) == IF S = {} THEN 0
                    ELSE LET k == CHOOSE x \in S : TRUE
                         IN  Len(partialMessages[k]) + Count(S \ {k})
    IN  Count(ids)

ReceiveFrame ==
    /\ StoredChunks < MaxStored
    /\ \E data \in ReceivedFrames : decodeData(data)
    /\ UNCHANGED <<wire, delivered, bleVars, appVars>>

\* frames a peer, or anyone who recorded them, sends again
ReplayedFrames == { PeerSingle[1], PeerDouble[1], PeerDouble[2] }

ReplayFrame ==
    /\ StoredChunks < MaxStored
    /\ \E data \in ReplayedFrames : decodeData(data)
    /\ delivered' = Returned(delivered, last'.result)
    /\ UNCHANGED <<wire, bleVars, appVars>>

\* chunks of transfers that are not completed, or not at once
StaleFrames == { PeerDouble[1], PeerDouble[2], PeerAbandoned }

ReceiveChunk ==
    /\ StoredChunks < MaxStored
    /\ \E data \in StaleFrames : decodeData(data)
    /\ UNCHANGED <<wire, delivered, bleVars, appVars>>

getCurrentTimeMillis == now

Tick ==
    /\ ~crashed
    /\ now < MaxTime
    /\ now' = now + 1
    /\ UNCHANGED <<symmetricKey, activePassword, nextTransferId, partialMessages,
                   partialMessageTimestamps, crashed, wire, cipher, last, delivered,
                   bleVars, appVars>>

\* variant: an entry exactly olderThanMilliseconds old is expired too
isExpired_inclusive(currentTime, stamp, olderThanMilliseconds) ==
    currentTime - stamp >= olderThanMilliseconds

isExpired(currentTime, stamp, olderThanMilliseconds) ==
    currentTime - stamp > olderThanMilliseconds

cleanupPartialMessages(olderThanMilliseconds) ==
    /\ ~crashed
    /\ LET currentTime == getCurrentTimeMillis
           idsToRemove == { id \in DOMAIN partialMessageTimestamps :
                              isExpired(currentTime, partialMessageTimestamps[id],
                                        olderThanMilliseconds) }
           keep(m) == [id \in (DOMAIN m) \ idsToRemove |-> m[id]]
       IN  /\ partialMessages' = keep(partialMessages)
           /\ partialMessageTimestamps' = keep(partialMessageTimestamps)
    /\ last' = [op |-> "cleanupPartialMessages",
                olderThanMilliseconds |-> olderThanMilliseconds,
                currentTime |-> getCurrentTimeMillis,
                stampsBefore |-> partialMessageTimestamps]
    /\ UNCHANGED <<symmetricKey, activePassword, nextTransferId, now, crashed,
                   cipher>>

CleanupPartialMessages ==
    /\ \E olderThan \in 0..MaxTime : cleanupPartialMessages(olderThan)
    /\ UNCHANGED <<wire, delivered, bleVars, appVars>>
coreVars == <<symmetricKey, activePassword, protoVars, cipher, last, delivered>>

-----------------------------------------------------------------------------
(* NetworkManager: the receive loop of a client connection *)

\* a second message of the peer, and frames that do not decode
PeerShort == PeerFramesOf(1, 3, <<72, 105>>)

TcpValidFrames == { PeerSingle[1], PeerShort[1] }

TcpFailingFrames ==
    { Slice(PeerSingle[1], 0, HEADER_SIZE - 9),
      WithContentType(PeerSingle[1], 7),
      WithVersion(PeerSingle[1], 2),
      Tamper(PeerSingle[1], HEADER_SIZE + NonceLen + 1, 1) }

\* everything the peer has written, and where its frames end
Stream == Concat(sentFrames)

Boundary(k) == Len(Concat(SubSeq(sentFrames, 1, k)))

\* the peer writes one more frame to the connection; the listener runs only
\* after the passphrase was entered
PeerSends ==
    /\ tcpPc # "closed"
    /\ symmetricKey # <<>>
    /\ Len(sentFrames) < MaxSent
    /\ \E frame \in TcpValidFrames \cup TcpFailingFrames :
          sentFrames' = Append(sentFrames, frame)
    /\ UNCHANGED <<coreVars, bleVars, tcpPc, messageBuffer, arrived, received,
                   aligned, threadVars, clipVars>>

\* what recv may return: all that is in flight, the rest of the frame in
\* flight, or part of it (less than a header, a header and part of a payload)
RecvSizes ==
    LET inFlight == Len(Stream) - arrived
        ends == { Boundary(k) - arrived : k \in 1..Len(sentFrames) }
    IN  { n \in {inFlight} \cup ends \cup {HEADER_SIZE - 9, HEADER_SIZE + 11} :
            n >= 1 /\ n <= inFlight }

\* the bytes returned are exactly one frame of the peer
WholeFrame(from, n) ==
    \E k \in 1..Len(sentFrames) : Boundary(k - 1) = from /\ Boundary(k) = from + n

\* one pass of the loop up to the sweep: recv, append, decodeData of the whole
\* buffer, and on a Message the callback and messageBuffer.clear()
HandleClientRecv ==
    /\ tcpPc = "recv"
    /\ \E bytesReceived \in RecvSizes :
          LET buffer == messageBuffer
                          \o Slice(Stream, arrived, arrived + bytesReceived)
          IN  /\ decodeData(buffer)
              /\ arrived' = arrived + bytesReceived
              /\ aligned' = (aligned /\ WholeFrame(arrived, bytesReceived))
              /\ IF last'.result # NULL
                 THEN /\ received' = Append(received,
                                        [contentType |-> last'.result.contentType,
                                         payload |-> last'.result.payload])
                      /\ messageBuffer' = <<>>
                 ELSE /\ received' = received
                      /\ messageBuffer' = buffer
    /\ tcpPc' = "cleanup"
    /\ UNCHANGED <<wire, delivered, bleVars, sentFrames, threadVars, clipVars>>

\* the end of the pass: cleanupPartialMessages(30000)
HandleClientCleanup ==
    /\ tcpPc = "cleanup"
    /\ cleanupPartialMessages(PARTIAL_MAX_AGE)
    /\ tcpPc' = "recv"
    /\ UNCHANGED <<wire, delivered, bleVars, messageBuffer, sentFrames, arrived,
                   received, aligned, threadVars, clipVars>>

\* recv returns 0 or an error: the loop is left
HandleClientClosed ==
    /\ tcpPc = "recv"
    /\ tcpPc' = "closed"
    /\ UNCHANGED <<coreVars, bleVars, messageBuffer, sentFrames, arrived,
                   received, aligned, threadVars, clipVars>>

-----------------------------------------------------------------------------
(* Threads inside decodeData and cleanupPartialMessages *)

InMap == {"decodeData", "cleanupPartialMessages"}

Others(t) == { u \in DecodeThreads \ {t} : inside[u] \in InMap }

\* t starts executing function f: it overlaps every thread already inside
Enter(t, f) ==
    /\ inside' = [inside EXCEPT ![t] = f]
    /\ raced' = [u \in DecodeThreads |->
                    IF u = t THEN Others(t) # {}
                    ELSE IF u \in Others(t) THEN TRUE ELSE raced[u]]

\* frames the threads are given
ThreadFrames == StaleFrames \cup {PeerSingle[1]}

\* the call of t takes effect. Unsynchronized calls that overlapped are a data
\* race on the two std::map objects: the call may act as if it ran alone, lose
\* its update, or corrupt the heap
DecodeEffect(t) ==
    \E data \in ThreadFrames :
        \/ decodeData(data)
        \/ /\ raced[t]
           /\ ~crashed
           /\ \E corrupted \in BOOLEAN :
                 /\ crashed' = corrupted
                 /\ last' = DecodeResult(data, NULL, NULL)
                 /\ UNCHANGED <<symmetricKey, activePassword, nextTransferId,
                                partialMessages, partialMessageTimestamps, now,
                                cipher>>

\* the completion handler of a write to the data characteristic takes
\* decodeMutex and calls decodeData
BleHandlerEnter(t) ==
    /\ ~crashed
    /\ inside[t] = "out"
    /\ decodeMutex = "free"
    /\ StoredChunks < MaxStored
    /\ decodeMutex' = t
    /\ Enter(t, "decodeData")
    /\ UNCHANGED <<coreVars, bleVars, netVars, clipVars, genPc, genId, genTmp, issued>>

\* decodeData returns and the lock_guard releases decodeMutex
BleHandlerLeave(t) ==
    /\ inside[t] = "decodeData"
    /\ decodeMutex = t
    /\ DecodeEffect(t)
    /\ inside' = [inside EXCEPT ![t] = "out"]
    /\ decodeMutex' = "free"
    /\ UNCHANGED <<wire, delivered, bleVars, netVars, clipVars, raced, genPc, genId,
                   genTmp, issued>>

\* a handleClient thread calls decodeData(messageBuffer); it takes no lock
TcpHandlerEnter(t) ==
    /\ ~crashed
    /\ inside[t] = "out"
    /\ StoredChunks < MaxStored
    /\ Enter(t, "decodeData")
    /\ UNCHANGED <<coreVars, bleVars, netVars, clipVars, decodeMutex, genPc, genId,
                   genTmp, issued>>

TcpHandlerLeave(t) ==
    /\ inside[t] = "decodeData"
    /\ DecodeEffect(t)
    /\ inside' = [inside EXCEPT ![t] = "decoded"]
    /\ UNCHANGED <<wire, delivered, bleVars, netVars, clipVars, decodeMutex, raced, genPc,
                   genId, genTmp, issued>>

\* the same pass of the loop goes on to cleanupPartialMessages(30000)
TcpSweepEnter(t) ==
    /\ ~crashed
    /\ inside[t] = "decoded"
    /\ Enter(t, "cleanupPartialMessages")
    /\ UNCHANGED <<coreVars, bleVars, netVars, clipVars, decodeMutex, genPc, genId,
                   genTmp, issued>>

TcpSweepLeave(t) ==
    /\ inside[t] = "cleanupPartialMessages"
    /\ cleanupPartialMessages(PARTIAL_MAX_AGE)
    /\ inside' = [inside EXCEPT ![t] = "out"]
    /\ UNCHANGED <<wire, delivered, bleVars, netVars, clipVars, decodeMutex, raced, genPc,
                   genId, genTmp, issued>>

-----------------------------------------------------------------------------
(* Threads inside generateTransferId *)

\* uint32_t id = nextTransferId;
GenLoadId(t) ==
    /\ ~crashed
    /\ genPc[t] = "idle"
    /\ Len(issued) + Cardinality({ u \in EncodeThreads : genPc[u] \in {"id", "counter"} })
          < MaxTransfers
    /\ genId' = [genId EXCEPT ![t] = nextTransferId]
    /\ genPc' = [genPc EXCEPT ![t] = "id"]
    /\ UNCHANGED <<coreVars, bleVars, netVars, clipVars, inside, decodeMutex, raced, genTmp,
                   issued>>

\* nextTransferId++ reads the counter ...
GenLoadCounter(t) ==
    /\ genPc[t] = "id"
    /\ genTmp' = [genTmp EXCEPT ![t] = nextTransferId]
    /\ genPc' = [genPc EXCEPT ![t] = "counter"]
    /\ UNCHANGED <<coreVars, bleVars, netVars, clipVars, inside, decodeMutex, raced, genId,
                   issued>>

\* ... and writes it back incremented; return id
GenStoreCounter(t) ==
    /\ genPc[t] = "counter"
    /\ nextTransferId' = genTmp[t] + 1
    /\ issued' = Append(issued, genId[t])
    /\ genPc' = [genPc EXCEPT ![t] = "encode"]
    /\ UNCHANGED <<symmetricKey, activePassword, partialMessages,
                   partialMessageTimestamps, now, crashed, wire, cipher, last,
                   delivered, bleVars, netVars, clipVars, inside, decodeMutex, raced, genId,
                   genTmp>>

\* the rest of encodeMessage for TCP, as broadcastMessage calls it: encrypt,
\* then one frame under the id obtained
EncodeWithId(t) ==
    /\ genPc[t] = "encode"
    /\ \E m \in Messages, nonce \in Nonces :
          LET r == encodeMessage(symmetricKey, genId[t], nonce, m.contentType,
                                 m.payload, TCP)
          IN  last' = [op |-> "encodeMessage", contentType |-> m.contentType,
                       payload |-> m.payload, transport |-> TCP,
                       keyBefore |-> symmetricKey, transferId |-> genId[t],
                       returned |-> TRUE, result |-> r.frames, nonce |-> nonce]
    /\ genPc' = [genPc EXCEPT ![t] = "idle"]
    /\ UNCHANGED <<symmetricKey, activePassword, protoVars, cipher, delivered,
                   bleVars, netVars, clipVars, inside, decodeMutex, raced, genId, genTmp,
                   issued>>

-----------------------------------------------------------------------------
(* BLEManager: the wakeup handshake *)

WAKEUP == "WAKEUP_CHAR_UUID"

DATA == "DATA_CHAR_UUID"

\* values a peer writes to a characteristic
WrittenValues == { <<>>, <<1>>, <<2>>, <<7>> }

\* results of asyncOp.wait_for(5 s)
AsyncStatuses == { "Completed", "Started", "Error", "Canceled" }

\* positions of sendMessage inside its frame loop
FrameLoop == { "window", "poll", "submit", "checkSubscribed" }

\* SubscribedClientsChanged: the flag follows the number of subscribers
SubscribedClientsChanged ==
    \E clients \in 0..1 :
        /\ hasSubscribedClients' = (clients > 0)
        /\ wakeupCharacteristicRef' = TRUE
        /\ afterLoss' = IF clients > 0 \/ smPc \notin FrameLoop THEN -1
                        ELSE IF afterLoss < 0 THEN 0 ELSE afterLoss
        /\ UNCHANGED <<coreVars, lastClientResponse, waitingForResponse, counter,
                       hsPc, hsDeadline, heard, wakeupsSent, hPc, hData, hWritten, smPc,
                       encodedChunks, smI, smIt, pendingOps, opStatus, smDeadline,
                       submitted, drainFailure, paceVars, appVars>>

WakeupReturn(response, notified, status) ==
    [op |-> "sendWakeupAndWaitForResponse", result |-> response,
     notified |-> notified, status |-> status]

\* variant: the subscription flag is not consulted
noSubscribedClients_ignored(subscribed) == FALSE

noSubscribedClients(subscribed) == ~subscribed

\* sendWakeupAndWaitForResponse is entered: the reference is read
HsCall ==
    /\ hsPc = "idle"
    /\ counter < MaxWakeups
    /\ IF ~wakeupCharacteristicRef
       THEN /\ last' = WakeupReturn("NONE", FALSE, "none")
            /\ UNCHANGED hsPc
       ELSE /\ hsPc' = "checkSubscribed"
            /\ UNCHANGED last
    /\ UNCHANGED <<symmetricKey, activePassword, protoVars, cipher, delivered, sendVars, appVars,
                   hasSubscribedClients, wakeupCharacteristicRef,
                   lastClientResponse, waitingForResponse, counter, hsDeadline,
                   heard, wakeupsSent, hPc, hData, hWritten>>

HsCheckSubscribed ==
    /\ hsPc = "checkSubscribed"
    /\ IF noSubscribedClients(hasSubscribedClients)
       THEN /\ last' = WakeupReturn("NONE", FALSE, "none")
            /\ hsPc' = "idle"
       ELSE /\ hsPc' = "reset"
            /\ UNCHANGED last
    /\ UNCHANGED <<symmetricKey, activePassword, protoVars, cipher, delivered, sendVars, appVars,
                   hasSubscribedClients, wakeupCharacteristicRef,
                   lastClientResponse, waitingForResponse, counter, hsDeadline,
                   heard, wakeupsSent, hPc, hData, hWritten>>

\* lastClientResponse.store(NONE)
HsReset ==
    /\ hsPc = "reset"
    /\ lastClientResponse' = "NONE"
    /\ heard' = <<>>
    /\ hsDeadline' = FALSE
    /\ hsPc' = "arm"
    /\ UNCHANGED <<coreVars, sendVars, appVars, hasSubscribedClients, wakeupCharacteristicRef,
                   waitingForResponse, counter, wakeupsSent, hPc, hData, hWritten>>

\* waitingForResponse.store(true)
HsArm ==
    /\ hsPc = "arm"
    /\ waitingForResponse' = TRUE
    /\ hsPc' = "notify"
    /\ UNCHANGED <<coreVars, sendVars, appVars, hasSubscribedClients, wakeupCharacteristicRef,
                   lastClientResponse, counter, hsDeadline, heard, wakeupsSent,
                   hPc, hData, hWritten>>

\* the counter is advanced and NotifyValueAsync is called; it may throw
HsNotify ==
    /\ hsPc = "notify"
    /\ counter' = (counter + 1) % 256
    /\ \E thrown \in BOOLEAN :
          IF thrown
          THEN /\ waitingForResponse' = FALSE
               /\ last' = WakeupReturn("NONE", FALSE, "hresult_error")
               /\ hsPc' = "idle"
               /\ UNCHANGED wakeupsSent
          ELSE /\ wakeupsSent' = wakeupsSent + 1
               /\ hsPc' = "waitFor"
               /\ UNCHANGED <<waitingForResponse, last>>
    /\ UNCHANGED <<symmetricKey, activePassword, protoVars, cipher, delivered, sendVars, appVars,
                   hasSubscribedClients, wakeupCharacteristicRef,
                   lastClientResponse, hsDeadline, heard, hPc, hData, hWritten>>

\* asyncOp.wait_for(5 s) returns the operation's status
HsWaitFor ==
    /\ hsPc = "waitFor"
    /\ \E status \in AsyncStatuses :
          IF status = "Completed"
          THEN /\ hsPc' = "poll"
               /\ UNCHANGED <<waitingForResponse, last>>
          ELSE /\ waitingForResponse' = FALSE
               /\ last' = WakeupReturn("NONE", TRUE, status)
               /\ hsPc' = "idle"
    /\ UNCHANGED <<symmetricKey, activePassword, protoVars, cipher, delivered, sendVars, appVars,
                   hasSubscribedClients, wakeupCharacteristicRef,
                   lastClientResponse, counter, hsDeadline, heard, wakeupsSent,
                   hPc, hData, hWritten>>

\* steady_clock passes startTime + timeoutMilliseconds
Elapse ==
    /\ hsPc = "poll"
    /\ ~hsDeadline
    /\ hsDeadline' = TRUE
    /\ UNCHANGED <<coreVars, sendVars, appVars, hasSubscribedClients, wakeupCharacteristicRef,
                   lastClientResponse, waitingForResponse, counter, hsPc, heard,
                   wakeupsSent, hPc, hData, hWritten>>

\* variant: the elapsed time is not compared with the timeout
keepWaiting_noTimeout(response, timedOut) == response = "NONE"

\* the wait loop goes round again
keepWaiting(response, timedOut) == response = "NONE" /\ ~timedOut

\* one round of the wait loop: leave it, or sleep 10 ms
HsPoll ==
    /\ hsPc = "poll"
    /\ hsPc' = IF keepWaiting(lastClientResponse, hsDeadline) THEN "poll" ELSE "done"
    /\ UNCHANGED <<coreVars, sendVars, appVars, hasSubscribedClients, wakeupCharacteristicRef,
                   lastClientResponse, waitingForResponse, counter, hsDeadline,
                   heard, wakeupsSent, hPc, hData, hWritten>>

\* waitingForResponse = false
HsDone ==
    /\ hsPc = "done"
    /\ waitingForResponse' = FALSE
    /\ hsPc' = "read"
    /\ UNCHANGED <<coreVars, sendVars, appVars, hasSubscribedClients, wakeupCharacteristicRef,
                   lastClientResponse, counter, hsDeadline, heard, wakeupsSent,
                   hPc, hData, hWritten>>

\* response = lastClientResponse.load(); return response
HsRead ==
    /\ hsPc = "read"
    /\ last' = WakeupReturn(lastClientResponse, TRUE, "Completed")
    /\ hsPc' = "idle"
    /\ UNCHANGED <<symmetricKey, activePassword, protoVars, cipher, delivered, sendVars, appVars,
                   hasSubscribedClients, wakeupCharacteristicRef,
                   lastClientResponse, waitingForResponse, counter, hsDeadline,
                   heard, wakeupsSent, hPc, hData, hWritten>>

\* a write request completes: a wakeup response while one is awaited, data
\* for decodeData otherwise
WriteRequested ==
    /\ hPc = "idle"
    /\ Len(heard) < MaxHeard
    /\ \E characteristicUuid \in {WAKEUP, DATA}, rawData \in WrittenValues :
          IF Len(rawData) > 0
          THEN IF characteristicUuid = WAKEUP /\ waitingForResponse
               THEN /\ hPc' = "respond"
                    /\ hData' = rawData
                    /\ hWritten' = [wakeups |-> wakeupsSent, pc |-> hsPc]
                    /\ UNCHANGED <<coreVars, sendVars, appVars, hasSubscribedClients,
                                   wakeupCharacteristicRef, lastClientResponse,
                                   waitingForResponse, counter, hsPc, hsDeadline,
                                   heard, wakeupsSent>>
               ELSE /\ decodeData(rawData)
                    /\ UNCHANGED <<wire, delivered, bleVars, appVars>>
          ELSE UNCHANGED vars

\* positions of sendWakeupAndWaitForResponse after NotifyValueAsync returned
Notified == { "waitFor", "poll", "done", "read" }

\* the write being handled was made after the wakeup notification of the call
\* now waiting had been sent
FollowsWakeup ==
    /\ hsPc \in Notified
    /\ hWritten.pc \in Notified
    /\ hWritten.wakeups = wakeupsSent

\* no write is being handled
NotWritten == [wakeups |-> 0, pc |-> "idle"]

\* variant: every code other than 0x01 is taken as a wish for TCP
responseFor_defaultTcp(responseCode, current) ==
    IF responseCode = 1 THEN "USE_BLE" ELSE "USE_TCP"

\* the value lastClientResponse holds after a response code is processed
responseFor(responseCode, current) ==
    IF responseCode = 1 THEN "USE_BLE"
    ELSE IF responseCode = 2 THEN "USE_TCP"
    ELSE current

\* the handler processes the response code
HandlerRespond ==
    /\ hPc = "respond"
    /\ LET responseCode == hData[1]
       IN  /\ lastClientResponse' = responseFor(responseCode, lastClientResponse)
           /\ heard' = Append(heard, [code |-> responseCode, late |-> hsDeadline,
                                      early |-> ~FollowsWakeup])
    /\ hPc' = "idle"
    /\ UNCHANGED <<coreVars, sendVars, appVars, hasSubscribedClients, wakeupCharacteristicRef,
                   waitingForResponse, counter, hsPc, hsDeadline, wakeupsSent,
                   hData>>
    /\ hWritten' = NotWritten

-----------------------------------------------------------------------------
(* BLEManager: sendMessage *)

MAX_PENDING_OPS == 3

\* int delayBetweenChunks = 20
DEFAULT_DELAY == 20

\* data and contentType given to sendMessage: one frame, four frames, and a
\* payload on which chunkedData does not return
\* a message of six frames whose sizes add up to 2680 bytes
LongMessages ==
    { [contentType |-> 1, payload |-> Fill(5 * BLE_MAX_CHUNK_SIZE + 6, <<65>>)] }

SendMessages ==
    { [contentType |-> 1, payload |-> HelloWorld],
      [contentType |-> 1, payload |-> Fill(MAX_PENDING_OPS * BLE_MAX_CHUNK_SIZE + 1, <<65>>)],
      [contentType |-> 3, payload |-> Fill(BLE_MAX_CHUNK_SIZE + 8, <<128>>)] }

\* an operation returned by NotifyValueAsync, and what it can become
Started == [status |-> "Started", allSuccess |-> TRUE]

Outcomes ==
    { [status |-> "Completed", allSuccess |-> TRUE],
      [status |-> "Completed", allSuccess |-> FALSE],
      [status |-> "Error", allSuccess |-> TRUE],
      [status |-> "Canceled", allSuccess |-> TRUE] }

SendReturn(result, reason) ==
    [op |-> "sendMessage", result |-> result, reason |-> reason,
     submitted |-> Len(submitted), total |-> Len(encodedChunks),
     pending |-> Len(pendingOps), drainFailure |-> drainFailure]

\* the locals of sendMessage after it returned
SendIdle ==
    /\ smPc' = "idle"
    /\ smI' = 0
    /\ smIt' = 1
    /\ pendingOps' = <<>>
    /\ opStatus' = <<>>
    /\ smDeadline' = FALSE

\* pendingOps without its element at position it, and the statuses still held
EraseAt(ops, it) == SubSeq(ops, 1, it - 1) \o SubSeq(ops, it + 1, Len(ops))

StatusOf(ops) == [id \in { ops[k] : k \in 1..Len(ops) } |-> opStatus[id]]

\* the passphrase is entered once, before anything is sent
Unlock ==
    /\ smPc = "idle"
    /\ symmetricKey = <<>>
    /\ setPassword(PeerPassword)

\* sendMessage is entered: subscription check, then encodeMessage for BLE,
\* then the timer variables
SmCallOf(messages) ==
    /\ smPc = "idle"
    /\ ~crashed
    /\ nextTransferId < MaxTransfers
    /\ submitted' = <<>>
    /\ afterLoss' = -1
    /\ drainFailure' = FALSE
    /\ delayBetweenChunks' = DEFAULT_DELAY
    /\ totalBytesSent' = 0
    /\ measured' = -1
    /\ IF ~hasSubscribedClients
       THEN /\ last' = [op |-> "sendMessage", result |-> FALSE,
                        reason |-> "noSubscribers", submitted |-> 0, total |-> 0,
                        pending |-> 0, drainFailure |-> FALSE]
            /\ encodedChunks' = <<>>
            /\ UNCHANGED <<smPc, smI, smIt, pendingOps, opStatus, smDeadline,
                           nextTransferId, crashed>>
       ELSE \E m \in messages, nonce \in Nonces :
               LET g == generateTransferId
                   r == encodeMessage(symmetricKey, g.id, nonce, m.contentType,
                                      m.payload, BLE)
               IN  /\ nextTransferId' = g.next
                   /\ crashed' = r.diverges
                   /\ UNCHANGED <<smI, smIt, pendingOps, opStatus, smDeadline>>
                   /\ IF r.diverges
                      THEN /\ smPc' = "encoding"
                           /\ encodedChunks' = <<>>
                           /\ last' = [op |-> "sendMessage entered"]
                      ELSE IF r.frames = <<>>
                      THEN /\ smPc' = "idle"
                           /\ encodedChunks' = <<>>
                           /\ last' = [op |-> "sendMessage", result |-> FALSE,
                                       reason |-> "encodeFailed", submitted |-> 0,
                                       total |-> 0, pending |-> 0,
                                       drainFailure |-> FALSE]
                      ELSE /\ smPc' = "window"
                           /\ encodedChunks' = r.frames
                           /\ last' = [op |-> "sendMessage entered"]
    /\ issued' = IF hasSubscribedClients THEN Append(issued, generateTransferId.id)
                  ELSE issued
    /\ UNCHANGED <<symmetricKey, activePassword, partialMessages,
                   partialMessageTimestamps, now, wire, cipher, delivered,
                   hasSubscribedClients, wakeVars, netVars, clipVars, threadRest>>

SmCall == SmCallOf(SendMessages)

\* variant: the window is taken as full one operation too late
windowFull_offByOne(pending) == pending > MAX_PENDING_OPS

windowFull(pending) == pending >= MAX_PENDING_OPS

\* the head of the flow-control loop
SmWindow ==
    /\ smPc = "window"
    /\ IF windowFull(Len(pendingOps))
       THEN smPc' = "poll" /\ smIt' = 1
       ELSE smPc' = "submit" /\ UNCHANGED smIt
    /\ UNCHANGED <<coreVars, hasSubscribedClients, wakeVars, appVars, encodedChunks, smI,
                   pendingOps, opStatus, smDeadline, submitted, afterLoss,
                   drainFailure, paceVars>>

\* variant: a failed operation is logged and retired, as in the final wait
pollOutcome_failureRetired(op) ==
    IF op.status = "Started" THEN "keep" ELSE "retire"

\* what the window-full wait does with a polled operation
pollOutcome(op) ==
    IF op.status \in {"Completed", "Error", "Canceled"}
    THEN IF op.status = "Completed"
         THEN IF op.allSuccess THEN "retire" ELSE "abort"
         ELSE "abort"
    ELSE "keep"

\* the window-full wait looks at one pending operation, or ends its pass
SmPoll ==
    /\ smPc = "poll"
    /\ IF smIt > Len(pendingOps)
       THEN /\ smPc' = "window"
            /\ UNCHANGED <<last, smI, smIt, pendingOps, opStatus, smDeadline>>
       ELSE LET outcome == pollOutcome(opStatus[pendingOps[smIt]])
            IN  IF outcome = "abort"
                THEN last' = SendReturn(FALSE, "operationFailed") /\ SendIdle
                ELSE IF outcome = "retire"
                THEN /\ pendingOps' = EraseAt(pendingOps, smIt)
                     /\ opStatus' = StatusOf(EraseAt(pendingOps, smIt))
                     /\ UNCHANGED <<last, smPc, smI, smIt, smDeadline>>
                ELSE /\ smIt' = smIt + 1
                     /\ UNCHANGED <<last, smPc, smI, pendingOps, opStatus,
                                    smDeadline>>
    /\ UNCHANGED <<symmetricKey, activePassword, protoVars, cipher, delivered,
                   hasSubscribedClients, wakeVars, appVars, encodedChunks, submitted,
                   afterLoss, drainFailure, paceVars>>

\* the transfer speed is calculated after frame i
speedCalculated(i) == i > 0 /\ i % 5 = 0

\* milliseconds since startTime that the speed calculation may find
ElapsedSamples == { 0, 100, 134, 536, 1000 }

\* variant: the tiers include their limits
selectDelay_inclusive(bytes, elapsed, current) ==
    IF elapsed > 0
    THEN IF bytes * 1000 <= 5000 * elapsed THEN 50
         ELSE IF bytes * 1000 >= 20000 * elapsed THEN 1
         ELSE 20
    ELSE current

\* delayBetweenChunks after a speed calculation: bytesPerSecond is
\* bytes * 1000.0 / elapsed, compared here without the division
selectDelay(bytes, elapsed, current) ==
    IF elapsed > 0
    THEN IF bytes * 1000 < 5000 * elapsed THEN 50
         ELSE IF bytes * 1000 > 20000 * elapsed THEN 1
         ELSE 20
    ELSE current

\* NotifyValueAsync(buffer) for frame i, then the metrics; the call may throw
SmSubmit ==
    /\ smPc = "submit"
    /\ \E thrown \in BOOLEAN :
          IF thrown
          THEN /\ last' = SendReturn(FALSE, "hresult_error")
               /\ SendIdle
               /\ UNCHANGED <<submitted, afterLoss, paceVars>>
          ELSE /\ pendingOps' = Append(pendingOps, smI)
               /\ opStatus' = [id \in DOMAIN opStatus \cup {smI} |->
                                  IF id = smI THEN Started ELSE opStatus[id]]
               /\ submitted' = Append(submitted, smI)
               /\ afterLoss' = IF afterLoss < 0 THEN afterLoss ELSE afterLoss + 1
               /\ totalBytesSent' = totalBytesSent + Len(encodedChunks[smI + 1])
               /\ IF speedCalculated(smI)
                  THEN \E elapsed \in ElapsedSamples :
                          /\ measured' = elapsed
                          /\ delayBetweenChunks' =
                                selectDelay(totalBytesSent', elapsed, delayBetweenChunks)
                  ELSE UNCHANGED <<measured, delayBetweenChunks>>
               /\ smPc' = "checkSubscribed"
               /\ UNCHANGED <<last, smI, smIt, smDeadline>>
    /\ UNCHANGED <<symmetricKey, activePassword, protoVars, cipher, delivered,
                   hasSubscribedClients, wakeVars, appVars, encodedChunks, drainFailure>>

\* variant: every other frame is passed over
nextFrame_skipping(i) == i + 2

\* i++ of the frame loop
nextFrame(i) == i + 1

\* variant: the flag is not read again after a frame was submitted
stillSubscribed_notReread(subscribed) == TRUE

stillSubscribed(subscribed) == subscribed

\* the check after each submitted frame, then the next frame or the final wait
SmCheckSubscribed ==
    /\ smPc = "checkSubscribed"
    /\ IF ~stillSubscribed(hasSubscribedClients)
       THEN last' = SendReturn(FALSE, "disconnected") /\ SendIdle
       ELSE /\ smI' = nextFrame(smI)
            /\ smPc' = IF nextFrame(smI) < Len(encodedChunks) THEN "window" ELSE "drain"
            /\ UNCHANGED <<last, smIt, pendingOps, opStatus, smDeadline>>
    /\ UNCHANGED <<symmetricKey, activePassword, protoVars, cipher, delivered,
                   hasSubscribedClients, wakeVars, appVars, encodedChunks, submitted,
                   afterLoss, drainFailure, paceVars>>

\* variant: a failure seen in the final wait fails the call
drainOutcome_escalated(op) ==
    IF op.status = "Started" THEN "keep"
    ELSE IF op.status = "Completed" /\ op.allSuccess THEN "retire" ELSE "abort"

\* what the final wait does with a polled operation
drainOutcome(op) ==
    IF op.status \in {"Completed", "Error", "Canceled"} THEN "retire" ELSE "keep"

\* the head of the final wait: nothing pending, or 5 s over, ends the call
SmDrain ==
    /\ smPc = "drain"
    /\ IF pendingOps = <<>> \/ smDeadline
       THEN last' = SendReturn(TRUE, "sent") /\ SendIdle
       ELSE /\ smPc' = "drainPoll"
            /\ smIt' = 1
            /\ UNCHANGED <<last, smI, pendingOps, opStatus, smDeadline>>
    /\ UNCHANGED <<symmetricKey, activePassword, protoVars, cipher, delivered,
                   hasSubscribedClients, wakeVars, appVars, encodedChunks, submitted,
                   afterLoss, drainFailure, paceVars>>

\* the final wait looks at one pending operation, or ends its pass
SmDrainPoll ==
    /\ smPc = "drainPoll"
    /\ IF smIt > Len(pendingOps)
       THEN /\ smPc' = "drain"
            /\ UNCHANGED <<last, smI, smIt, pendingOps, opStatus, smDeadline,
                           drainFailure>>
       ELSE LET op == opStatus[pendingOps[smIt]]
                outcome == drainOutcome(op)
            IN  IF outcome = "abort"
                THEN /\ last' = SendReturn(FALSE, "operationFailed")
                     /\ SendIdle
                     /\ UNCHANGED drainFailure
                ELSE IF outcome = "retire"
                THEN /\ pendingOps' = EraseAt(pendingOps, smIt)
                     /\ opStatus' = StatusOf(EraseAt(pendingOps, smIt))
                     /\ drainFailure' =
                           (drainFailure \/ ~(op.status = "Completed" /\ op.allSuccess))
                     /\ UNCHANGED <<last, smPc, smI, smIt, smDeadline>>
                ELSE /\ smIt' = smIt + 1
                     /\ UNCHANGED <<last, smPc, smI, pendingOps, opStatus,
                                    smDeadline, drainFailure>>
    /\ UNCHANGED <<symmetricKey, activePassword, protoVars, cipher, delivered,
                   hasSubscribedClients, wakeVars, appVars, encodedChunks, submitted,
                   afterLoss, paceVars>>

\* five seconds pass since waitStartTime
DrainElapse ==
    /\ smPc \in {"drain", "drainPoll"}
    /\ ~smDeadline
    /\ smDeadline' = TRUE
    /\ UNCHANGED <<coreVars, hasSubscribedClients, wakeVars, appVars, smPc, encodedChunks,
                   smI, smIt, pendingOps, opStatus, submitted, afterLoss,
                   drainFailure, paceVars>>

\* a notification in flight completes, fails or is cancelled
OpCompletes ==
    \E id \in DOMAIN opStatus, outcome \in Outcomes :
        /\ opStatus[id] = Started
        /\ opStatus' = [opStatus EXCEPT ![id] = outcome]
        /\ UNCHANGED <<coreVars, hasSubscribedClients, wakeVars, appVars, smPc,
                       encodedChunks, smI, smIt, pendingOps, smDeadline,
                       submitted, afterLoss, drainFailure, paceVars>>

-----------------------------------------------------------------------------
(* ClipboardManager: applying remote messages beside the window procedure *)

PLAIN_TEXT == 1
PNG_IMAGE == 3

\* clipboard changes explored
MaxChanges == 3

\* what the peer sent and what the user copies
RemoteMessages ==
    { [contentType |-> PLAIN_TEXT, data |-> <<82, 101>>],
      [contentType |-> PNG_IMAGE, data |-> <<137, 80, 78, 71>>] }

LocalTexts == { <<76, 111>> }

\* std::hash<std::string> of the bytes: some number, 0 for no byte at all
contentHash(data) == WeightedSum(data, 1, Len(data))

\* getImageFromClipboard: the bitmap on the clipboard encoded as JPEG, which
\* is not the byte string the bitmap was made from
getImageFromClipboard(data) == <<255, 216>> \o data

\* getClipboardContent: an image if there is one, the text otherwise
getClipboardContent ==
    IF clipboard.format = "image" THEN getImageFromClipboard(clipboard.data)
    ELSE clipboard.data

\* processRemoteMessage is entered on the thread that received the message;
\* for text setClipboardContent takes clipboardMutex
ProcessRemoteMessage ==
    /\ applyPc = "idle"
    /\ changes < MaxChanges
    /\ \E m \in RemoteMessages :
          /\ applyMsg' = m
          /\ IF m.contentType = PLAIN_TEXT
             THEN clipboardMutex = "free" /\ clipboardMutex' = "apply"
             ELSE UNCHANGED clipboardMutex
    /\ applyPc' = "set"
    /\ UNCHANGED <<coreVars, bleVars, netVars, threadVars, clipboard, updates,
                   changes, ignoreNextChange, lastContentHash, wndPc, wndCause,
                   callbacks, ignoredCauses>>

\* OpenClipboard .. SetClipboardData .. CloseClipboard: the clipboard changes
\* and the system posts WM_CLIPBOARDUPDATE, or a step fails and the call
\* returns false
SetClipboardData ==
    /\ applyPc = "set"
    /\ \E ok \in BOOLEAN :
          IF ok
          THEN /\ clipboard' = [format |-> IF applyMsg.contentType = PLAIN_TEXT
                                           THEN "text" ELSE "image",
                                data |-> applyMsg.data]
               /\ updates' = Append(updates, "remote")
               /\ changes' = changes + 1
               /\ applyPc' = "flag"
               /\ UNCHANGED clipboardMutex
          ELSE /\ applyPc' = "idle"
               /\ clipboardMutex' = IF clipboardMutex = "apply" THEN "free"
                                    ELSE clipboardMutex
               /\ UNCHANGED <<clipboard, updates, changes>>
    /\ UNCHANGED <<coreVars, bleVars, netVars, threadVars, ignoreNextChange,
                   lastContentHash, applyMsg, wndPc, wndCause, callbacks,
                   ignoredCauses>>

\* ignoreNextChange.store(true), for an image also lastContentHash; the call
\* returns and the mutex is released
StoreIgnoreFlag ==
    /\ applyPc = "flag"
    /\ ignoreNextChange' = TRUE
    /\ lastContentHash' = IF applyMsg.contentType = PLAIN_TEXT THEN lastContentHash
                          ELSE contentHash(applyMsg.data)
    /\ clipboardMutex' = IF clipboardMutex = "apply" THEN "free" ELSE clipboardMutex
    /\ applyPc' = "idle"
    /\ UNCHANGED <<coreVars, bleVars, netVars, threadVars, clipboard, updates,
                   changes, applyMsg, wndPc, wndCause, callbacks, ignoredCauses>>

\* the user copies something in another application
UserCopies ==
    /\ changes < MaxChanges
    /\ \E text \in LocalTexts : clipboard' = [format |-> "text", data |-> text]
    /\ updates' = Append(updates, "local")
    /\ changes' = changes + 1
    /\ UNCHANGED <<coreVars, bleVars, netVars, threadVars, ignoreNextChange,
                   lastContentHash, clipboardMutex, applyPc, applyMsg, wndPc,
                   wndCause, callbacks, ignoredCauses>>

\* ClipboardWndProc takes a WM_CLIPBOARDUPDATE: shouldIgnoreNextChange()
WndProcUpdate ==
    /\ wndPc = "idle"
    /\ updates # <<>>
    /\ wndCause' = Head(updates)
    /\ updates' = Tail(updates)
    /\ wndPc' = IF ignoreNextChange THEN "reset" ELSE "read"
    /\ UNCHANGED <<coreVars, bleVars, netVars, threadVars, clipboard, changes,
                   ignoreNextChange, lastContentHash, clipboardMutex, applyPc,
                   applyMsg, callbacks, ignoredCauses>>

\* resetIgnoreFlag(); return 0
ResetIgnoreFlag ==
    /\ wndPc = "reset"
    /\ ignoreNextChange' = FALSE
    /\ ignoredCauses' = ignoredCauses \cup {wndCause}
    /\ wndPc' = "idle"
    /\ UNCHANGED <<coreVars, bleVars, netVars, threadVars, clipboard, updates,
                   changes, lastContentHash, clipboardMutex, applyPc, applyMsg,
                   wndCause, callbacks>>

\* getClipboardContent (getClipboardText waits for clipboardMutex), the hash
\* comparison and the callback
WndProcRead ==
    /\ wndPc = "read"
    /\ clipboard.format = "image" \/ clipboardMutex = "free"
    /\ LET data == getClipboardContent
       IN  IF data # <<>> /\ contentHash(data) # lastContentHash
           THEN /\ lastContentHash' = contentHash(data)
                /\ callbacks' = Append(callbacks, [cause |-> wndCause, data |-> data])
           ELSE UNCHANGED <<lastContentHash, callbacks>>
    /\ wndPc' = "idle"
    /\ UNCHANGED <<coreVars, bleVars, netVars, threadVars, clipboard, updates,
                   changes, ignoreNextChange, clipboardMutex, applyPc, applyMsg,
                   wndCause, ignoredCauses>>

-----------------------------------------------------------------------------
Init ==
    /\ symmetricKey = <<>>
    /\ nextTransferId = 0
    /\ partialMessages = <<>>
    /\ partialMessageTimestamps = <<>>
    /\ now = 0
    /\ crashed = FALSE
    /\ wire = NULL
    /\ cipher = NULL
    /\ activePassword = <<>>
    /\ last = [op |-> "start"]
    /\ delivered = [once |-> {}, again |-> {}]
    /\ hasSubscribedClients = FALSE
    /\ wakeupCharacteristicRef = FALSE
    /\ lastClientResponse = "NONE"
    /\ waitingForResponse = FALSE
    /\ counter = 0
    /\ hsPc = "idle"
    /\ hsDeadline = FALSE
    /\ heard = <<>>
    /\ wakeupsSent = 0
    /\ hPc = "idle"
    /\ hData = <<>>
    /\ hWritten = NotWritten
    /\ smPc = "idle"
    /\ encodedChunks = <<>>
    /\ smI = 0
    /\ smIt = 1
    /\ pendingOps = <<>>
    /\ opStatus = <<>>
    /\ smDeadline = FALSE
    /\ submitted = <<>>
    /\ afterLoss = -1
    /\ drainFailure = FALSE
    /\ delayBetweenChunks = DEFAULT_DELAY
    /\ totalBytesSent = 0
    /\ measured = -1
    /\ tcpPc = "recv"
    /\ messageBuffer = <<>>
    /\ sentFrames = <<>>
    /\ arrived = 0
    /\ received = <<>>
    /\ aligned = TRUE
    /\ inside = [t \in DecodeThreads |-> "out"]
    /\ decodeMutex = "free"
    /\ raced = [t \in DecodeThreads |-> FALSE]
    /\ genPc = [t \in EncodeThreads |-> "idle"]
    /\ genId = [t \in EncodeThreads |-> 0]
    /\ genTmp = [t \in EncodeThreads |-> 0]
    /\ issued = <<>>
    /\ clipboard = [format |-> "none", data |-> <<>>]
    /\ updates = <<>>
    /\ changes = 0
    /\ ignoreNextChange = FALSE
    /\ lastContentHash = 0
    /\ clipboardMutex = "free"
    /\ applyPc = "idle"
    /\ applyMsg = [contentType |-> 1, data |-> <<>>]
    /\ wndPc = "idle"
    /\ wndCause = "none"
    /\ callbacks = <<>>
    /\ ignoredCauses = {}

\* sender and receiver in one process, as in the round-trip tests; the
\* passphrase is changed only between transfers
Next ==
    \/ WireIdle /\ SetPassword
    \/ WireIdle /\ ClearPassword
    \/ EncodeMessage
    \/ DeliverFrame

Spec == Init /\ [][Next]_vars

NextDecode ==
    \/ SetPassword
    \/ ClearPassword
    \/ ReceiveFrame
    \/ Tick
    \/ CleanupPartialMessages

SpecDecode == Init /\ [][NextDecode]_vars

\* the same frames arriving again and again
NextReplay ==
    \/ SetPassword
    \/ ClearPassword
    \/ ReplayFrame

SpecReplay == Init /\ [][NextReplay]_vars

\* the receive loop of a transport: chunks arrive, time passes, the sweep runs
NextSweep ==
    \/ ReceiveChunk
    \/ Tick
    \/ CleanupPartialMessages

SpecSweep == Init /\ [][NextSweep]_vars

\* the thread calling sendWakeupAndWaitForResponse
HsStep ==
    \/ HsCall
    \/ HsCheckSubscribed
    \/ HsReset
    \/ HsArm
    \/ HsNotify
    \/ HsWaitFor
    \/ HsPoll
    \/ HsDone
    \/ HsRead

\* the handshake against the GATT event handlers
NextWakeup ==
    \/ HsCall
    \/ HsCheckSubscribed
    \/ HsReset
    \/ HsArm
    \/ HsNotify
    \/ HsWaitFor
    \/ HsPoll
    \/ HsDone
    \/ HsRead
    \/ Elapse
    \/ SubscribedClientsChanged
    \/ WriteRequested
    \/ HandlerRespond

\* the calling thread keeps running and the steady clock advances
SpecWakeup ==
    Init /\ [][NextWakeup]_vars /\ WF_vars(HsStep) /\ WF_vars(Elapse)

\* sendMessage against the notification operations and the subscription events
NextSend ==
    \/ Unlock
    \/ SmCall
    \/ SmWindow
    \/ SmPoll
    \/ SmSubmit
    \/ SmCheckSubscribed
    \/ SmDrain
    \/ SmDrainPoll
    \/ DrainElapse
    \/ OpCompletes
    \/ SubscribedClientsChanged

SpecSend == Init /\ [][NextSend]_vars

\* sendMessage of a message long enough for a speed calculation
SmCallLong == SmCallOf(LongMessages)

\* a notification in flight completes with success
OpSucceeds ==
    \E id \in DOMAIN opStatus :
        /\ opStatus[id] = Started
        /\ opStatus' = [opStatus EXCEPT ![id] = [status |-> "Completed",
                                                 allSuccess |-> TRUE]]
        /\ UNCHANGED <<coreVars, hasSubscribedClients, wakeVars, appVars, smPc,
                       encodedChunks, smI, smIt, pendingOps, smDeadline,
                       submitted, afterLoss, drainFailure, paceVars>>

NextPacing ==
    \/ Unlock
    \/ SmCallLong
    \/ SmWindow
    \/ SmPoll
    \/ SmSubmit
    \/ SmCheckSubscribed
    \/ SmDrain
    \/ SmDrainPoll
    \/ DrainElapse
    \/ OpSucceeds
    \/ SubscribedClientsChanged

SpecPacing == Init /\ [][NextPacing]_vars

\* the thread applying remote messages, the window thread and the user
NextClipboard ==
    \/ ProcessRemoteMessage
    \/ SetClipboardData
    \/ StoreIgnoreFlag
    \/ UserCopies
    \/ WndProcUpdate
    \/ ResetIgnoreFlag
    \/ WndProcRead

SpecClipboard == Init /\ [][NextClipboard]_vars

\* a client connection: the peer writes frames, the handler thread receives
NextTcp ==
    \/ Unlock
    \/ PeerSends
    \/ HandleClientRecv
    \/ HandleClientCleanup
    \/ HandleClientClosed

SpecTcp == Init /\ [][NextTcp]_vars

\* inbound deliveries on several threads: BLE write completions and the
\* handleClient threads of the connections
NextInbound ==
    \/ \E t \in BleThreads : BleHandlerEnter(t)
    \/ \E t \in BleThreads : BleHandlerLeave(t)
    \/ \E t \in TcpThreads : TcpHandlerEnter(t)
    \/ \E t \in TcpThreads : TcpHandlerLeave(t)
    \/ \E t \in TcpThreads : TcpSweepEnter(t)
    \/ \E t \in TcpThreads : TcpSweepLeave(t)

SpecInbound == Init /\ [][NextInbound]_vars

\* broadcastMessage called on the window-message thread and on the accept
\* thread: both enter encodeMessage, which starts with generateTransferId
NextIds ==
    \/ \E t \in EncodeThreads : GenLoadId(t)
    \/ \E t \in EncodeThreads : GenLoadCounter(t)
    \/ \E t \in EncodeThreads : GenStoreCounter(t)
    \/ \E t \in EncodeThreads : EncodeWithId(t)
    \/ Unlock

SpecIds == Init /\ [][NextIds]_vars

NextBytes ==
    \/ Uint32ToBytes
    \/ Uint16ToBytes
    \/ BytesToUint32
    \/ BytesToUint16

SpecBytes == Init /\ [][NextBytes]_vars

\* the thread inside sendMessage, from the flow-control loop to the return
SmStep ==
    \/ SmWindow
    \/ SmPoll
    \/ SmSubmit
    \/ SmCheckSubscribed
    \/ SmDrain
    \/ SmDrainPoll

\* the sending thread keeps running and the clock advances; nothing makes a
\* notification in flight complete
SpecSendRun ==
    Init /\ [][NextSend]_vars /\ WF_vars(SmStep) /\ WF_vars(DrainElapse)

NextCalls ==
    \/ SetPassword
    \/ ClearPassword
    \/ Encrypt
    \/ Decrypt
    \/ EncodeMessage

SpecCalls == Init /\ [][NextCalls]_vars

NextCrypto == SetPassword \/ ClearPassword \/ EncryptKeep \/ DecryptKept

SpecCrypto == Init /\ [][NextCrypto]_vars

-----------------------------------------------------------------------------
(* Claims about ClipboardEncryption, checked under SpecCrypto *)

\* b is a with exactly one byte changed, at an index >= from
SingleByteChange(a, b, from) ==
    /\ Len(a) = Len(b)
    /\ \E i \in from..Len(a) :
          /\ a[i] # b[i]
          /\ \A j \in 1..Len(a) : j # i => a[j] = b[j]

DecryptOfKept ==
    /\ last.op = "decrypt"
    /\ cipher # NULL
    /\ last.data = cipher.envelope

\* C6: decrypt returns the empty result for an envelope made under another
\* passphrase, and for an envelope with one byte of its ciphertext or tag changed.
C6_WrongKeyOrTamperFails ==
    (last.op = "decrypt" /\ cipher # NULL) =>
        /\ (last.data = cipher.envelope /\ activePassword # cipher.password)
              => last.result = <<>>
        /\ SingleByteChange(cipher.envelope, last.data, NonceLen + 1)
              => last.result = <<>>

C6_Witness ==
    /\ last.op = "decrypt"
    /\ cipher # NULL
    /\ cipher.plaintext # <<>>
    /\ activePassword = cipher.password
    /\ SingleByteChange(cipher.envelope, last.data, NonceLen + 1)
    /\ last.data[Len(last.data)] # cipher.envelope[Len(last.data)]
    /\ last.result = <<>>

\* C8: no key at start; isPasswordSet() is true exactly when a non-empty
\* setPassword succeeded since the last clearPassword; setPassword("") returns
\* false and leaves the key as it was.
C8_KeyLifecycle ==
    /\ last.op = "start" => ~isPasswordSet
    /\ isPasswordSet <=> activePassword # <<>>
    /\ (last.op = "setPassword" /\ last.password = <<>>) =>
          (last.result = FALSE /\ symmetricKey = last.keyBefore)
    /\ (last.op = "setPassword" /\ last.password # <<>>) =>
          (last.result = TRUE /\ isPasswordSet)
    /\ last.op = "clearPassword" => ~isPasswordSet

C8_Witness ==
    /\ last.op = "setPassword"
    /\ last.password = <<>>
    /\ last.keyBefore # <<>>
    /\ isPasswordSet

\* C9: with a key set, decrypt(encrypt(P)) = P for every plaintext P, and the
\* envelope returned by encrypt(P) is |P| + 28 bytes long.
C9_RoundTrip ==
    cipher # NULL =>
        /\ Len(cipher.envelope) = Len(cipher.plaintext) + 28
        /\ (DecryptOfKept /\ activePassword = cipher.password)
              => last.result = cipher.plaintext

C9_Witness ==
    /\ DecryptOfKept
    /\ activePassword = cipher.password
    /\ Len(cipher.plaintext) > 1
    /\ last.result = cipher.plaintext

-----------------------------------------------------------------------------
(* Claims about MessageProtocol *)

FrameLength(f) == bytesToUint32(f, 0)
FrameVersion(f) == bytesToUint16(f, 4)
FrameContentType(f) == f[7]
FrameTransferId(f) == bytesToUint32(f, 7)
FrameChunkIndex(f) == bytesToUint32(f, 11)
FrameTotalChunks(f) == bytesToUint32(f, 15)
FramePayload(f) == Slice(f, HEADER_SIZE, Len(f))

EncodeReturnedFrames ==
    /\ last.op = "encodeMessage"
    /\ last.returned
    /\ last.result # <<>>

\* a decodeData call on a frame of the latest encodeMessage (Spec: every
\* decodeData call is such a delivery, under the key the frames were encoded with)
DeliveredUnderSameKey(transport) ==
    /\ last.op = "decodeData"
    /\ wire # NULL
    /\ wire.transport = transport
    /\ last.keyBefore # <<>>

IsMessageOf(result, contentType, payload) ==
    /\ result # NULL
    /\ result.contentType = contentType
    /\ result.payload = payload

\* C1: with a key set, encodeMessage(T, P, TCP) returns exactly one frame
\* (chunkIndex 0, totalChunks 1) and decodeData of that frame returns a Message
\* with contentType T and payload P.
C1_TcpRoundTrip ==
    /\ (last.op = "encodeMessage" /\ last.transport = TCP /\ last.keyBefore # <<>>) =>
          /\ Len(last.result) = 1
          /\ FrameChunkIndex(last.result[1]) = 0
          /\ FrameTotalChunks(last.result[1]) = 1
    /\ DeliveredUnderSameKey(TCP) =>
          IsMessageOf(last.result, wire.contentType, wire.payload)

\* C2: with a key set, when the frames of one encodeMessage(T, P, BLE) are given
\* to decodeData once each in any order, every call before the last returns no
\* message and the last returns a Message with contentType T and payload P.
C2_BleAnyOrderReassembles ==
    DeliveredUnderSameKey(BLE) =>
        IF wire.pending # {} THEN last.result = NULL
        ELSE IsMessageOf(last.result, wire.contentType, wire.payload)

\* C3: the frames carry the envelope returned by encrypt(P): the TCP frame's
\* payload is the envelope and its length field is 19 + the envelope's length;
\* the BLE frames' payloads, in chunkIndex order, concatenate to the envelope.
C3_FramesCarryEnvelope ==
    EncodeReturnedFrames =>
        LET envelope == encrypt(last.keyBefore, last.nonce, last.payload)
            frames == last.result
        IN  IF last.transport = TCP
            THEN /\ FramePayload(frames[1]) = envelope
                 /\ FrameLength(frames[1]) = 19 + Len(envelope)
            ELSE Concat([i \in 1..Len(frames) |-> FramePayload(frames[i])]) = envelope

\* C4: a successful encodeMessage for BLE returns n >= 1 frames with one
\* transferId, version 1, the given contentType, chunkIndex 0..n-1 in output
\* order, totalChunks = n, and payloads of at most 512 bytes.
C4_BleFrameHeaders ==
    (EncodeReturnedFrames /\ last.transport = BLE) =>
        LET frames == last.result
            n == Len(frames)
        IN  /\ n >= 1
            /\ \A i \in 1..n :
                  /\ FrameTransferId(frames[i]) = last.transferId
                  /\ FrameVersion(frames[i]) = 1
                  /\ FrameContentType(frames[i]) = last.contentType
                  /\ FrameChunkIndex(frames[i]) = i - 1
                  /\ FrameTotalChunks(frames[i]) = n
                  /\ Len(FramePayload(frames[i])) <= 512

C4_Witness ==
    /\ EncodeReturnedFrames
    /\ last.transport = BLE
    /\ Len(last.result) >= 2
    /\ last.transferId > 0
    /\ Len(FramePayload(last.result[1])) < 512

\* C5: when the authenticated decryption of a single-chunk payload or of a
\* reassembled payload fails, decodeData returns no Message; a Message it
\* returns carries the decrypted bytes, never the received ones.
C5_NoPlaintextFallback ==
    last.op = "decodeData" =>
        /\ (last.handed # NULL /\ decrypt(last.keyBefore, last.handed) = <<>>)
              => last.result = NULL
        /\ last.result # NULL =>
              /\ last.handed # NULL
              /\ last.result.payload = decrypt(last.keyBefore, last.handed)
              /\ last.result.payload # last.handed

C5_Witness ==
    /\ last.op = "decodeData"
    /\ last.keyBefore # <<>>
    /\ last.handed # NULL
    /\ Len(last.handed) > BLE_MAX_CHUNK_SIZE
    /\ decrypt(last.keyBefore, last.handed) = <<>>
    /\ last.result = NULL

\* C7: while no key is set, encrypt and decrypt return the empty result,
\* encodeMessage returns no frames, and the key is still absent afterwards.
C7_NoKeyFails ==
    (last.op \in {"encrypt", "decrypt", "encodeMessage"} /\ last.keyBefore = <<>>) =>
        /\ last.result = <<>>
        /\ last.op = "encodeMessage" => last.returned
        /\ symmetricKey = last.keyBefore
        /\ ~isPasswordSet

C7_Witness ==
    /\ last.op = "encodeMessage"
    /\ last.keyBefore = <<>>
    /\ last.payload # <<>>
    /\ last.result = <<>>
    /\ ~isPasswordSet

MalformedInput(data) ==
    IF Len(data) < 19 THEN TRUE ELSE data[7] \notin 1..6

\* C10: for an input shorter than 19 bytes, or with a contentType byte outside
\* 1..6, decodeData returns no Message and leaves the stored chunks and the
\* timestamps of every transfer as they were.
C10_MalformedRejected ==
    [][ (last'.op = "decodeData" /\ MalformedInput(last'.data)) =>
            /\ last'.result = NULL
            /\ partialMessages' = partialMessages
            /\ partialMessageTimestamps' = partialMessageTimestamps ]_vars

C10_Witness ==
    /\ last.op = "decodeData"
    /\ Len(last.data) >= 19
    /\ last.data[7] = 0
    /\ FrameTotalChunks(last.data) = 2
    /\ last.result = NULL
    /\ DOMAIN partialMessages # {}

\* C11: a frame whose version field is not 1 is rejected by decodeData: no
\* Message is returned for it and neither the stored chunks nor the timestamps
\* change.
C11_OtherVersionRejected ==
    [][ (/\ last'.op = "decodeData"
         /\ Len(last'.data) >= HEADER_SIZE
         /\ FrameVersion(last'.data) # PROTOCOL_VERSION) =>
            /\ last'.result = NULL
            /\ partialMessages' = partialMessages
            /\ partialMessageTimestamps' = partialMessageTimestamps ]_vars

\* C12: over any sequence of decodeData calls, replays and duplicates
\* included, no transfer identifier has a Message returned for it more than once.
C12_AtMostOnePerTransfer == delivered.again = {}

\* the ids cleanupPartialMessages(maxAge) has to keep: age at most maxAge
FreshIds(stamps, currentTime, maxAge) ==
    { id \in DOMAIN stamps : currentTime - stamps[id] <= maxAge }

\* C13: a cleanupPartialMessages(maxAge) call leaves exactly the transfers that
\* were present and whose time since the last update is at most maxAge, with
\* their chunks and timestamps as they were; all older ones are gone.
C13_CleanupKeepsFresh ==
    [][ (last'.op = "cleanupPartialMessages" /\ now' = now) =>
           LET fresh == FreshIds(partialMessageTimestamps, now,
                                 last'.olderThanMilliseconds)
           IN  /\ DOMAIN partialMessages = DOMAIN partialMessageTimestamps
               /\ partialMessages' = [id \in fresh |-> partialMessages[id]]
               /\ partialMessageTimestamps' =
                      [id \in fresh |-> partialMessageTimestamps[id]] ]_vars

\* a sweep that removed the abandoned 1-of-3 transfer and kept a younger one
C13_Witness ==
    /\ last.op = "cleanupPartialMessages"
    /\ 1 \in DOMAIN last.stampsBefore
    /\ 1 \notin DOMAIN partialMessages
    /\ 1 \notin DOMAIN partialMessageTimestamps
    /\ 0 \in DOMAIN partialMessages
    /\ partialMessageTimestamps[0] = last.stampsBefore[0]
    /\ last.currentTime - last.stampsBefore[1] > last.olderThanMilliseconds
    /\ now = last.currentTime

-----------------------------------------------------------------------------
(* Claims on the wakeup handshake *)

\* the step in which a sendWakeupAndWaitForResponse call returns after its
\* notification completed and its wait loop ran
WaitReturns == hsPc = "read" /\ hsPc' = "idle"

ValidResponses(h) == { i \in 1..Len(h) : h[i].code \in {1, 2} }

\* the preference of the latest valid response code in h
LastPreference(h) ==
    IF ValidResponses(h) = {} THEN "NONE"
    ELSE LET latest == CHOOSE i \in ValidResponses(h) :
                           \A j \in ValidResponses(h) : j <= i
         IN  IF h[latest].code = 1 THEN "USE_BLE" ELSE "USE_TCP"

\* C14 as stated: a write of 0x01 during the wait makes the call return
\* USE_BLE, a write of 0x02 makes it return USE_TCP, other values are ignored
\* and without a 0x01/0x02 write the call returns NONE at the timeout.
C14_EachResponseDecides ==
    [][ WaitReturns =>
          /\ (\E i \in 1..Len(heard) : heard[i].code = 1)
                 => last'.result = "USE_BLE"
          /\ (\E i \in 1..Len(heard) : heard[i].code = 2)
                 => last'.result = "USE_TCP"
          /\ ValidResponses(heard) = {}
                 => (last'.result = "NONE" /\ hsDeadline) ]_vars

\* C14 amended: the call returns the preference of the latest 0x01/0x02 write
\* stored since it reset lastClientResponse (a later one overrides an earlier
\* one), other values change nothing, and NONE is returned only at the timeout.
C14_LatestResponseDecides ==
    [][ WaitReturns =>
          /\ last'.result = LastPreference(heard)
          /\ last'.result = "NONE" => hsDeadline ]_vars

\* an ignored value was followed by 0x01 before the timeout
C14_Witness ==
    /\ hsPc = "idle"
    /\ last.op = "sendWakeupAndWaitForResponse"
    /\ last.status = "Completed"
    /\ Len(heard) = 2
    /\ heard[1].code = 7
    /\ heard[2].code = 1
    /\ ~heard[2].late
    /\ last.result = "USE_BLE"

\* C15: a call that finds no subscribed peer returns NONE, sends no
\* notification and leaves lastClientResponse, waitingForResponse and the
\* counter as they were.
C15_NoSubscriberShortCircuits ==
    [][ (/\ hsPc = "checkSubscribed"
         /\ hsPc' # "checkSubscribed"
         /\ ~hasSubscribedClients) =>
            /\ hsPc' = "idle"
            /\ last'.op = "sendWakeupAndWaitForResponse"
            /\ last'.result = "NONE"
            /\ ~last'.notified
            /\ wakeupsSent' = wakeupsSent
            /\ lastClientResponse' = lastClientResponse
            /\ waitingForResponse' = waitingForResponse
            /\ counter' = counter ]_vars

\* a call short-circuited after an earlier one had advanced the counter
C15_Witness ==
    /\ last.op = "sendWakeupAndWaitForResponse"
    /\ last.status = "none"
    /\ ~last.notified
    /\ hsPc = "idle"
    /\ wakeupCharacteristicRef
    /\ ~hasSubscribedClients
    /\ counter > 0
    /\ wakeupsSent = counter

\* C16 as stated, its return value: a call for which no valid response arrived
\* before the timeout elapsed returns NONE.
C16_NoneUnlessInTime ==
    [][ WaitReturns =>
          ((\A i \in ValidResponses(heard) : heard[i].late)
              => last'.result = "NONE") ]_vars

\* C16 amended: every call returns, whatever the peer and the notification do,
\* and it returns NONE when no valid response was stored before its last read
\* of lastClientResponse (one stored after the timeout but before that read is
\* still returned).
C16_AlwaysReturns ==
    /\ [][ (hsPc # "idle" /\ hsPc' = "idle") =>
             (ValidResponses(heard) = {} => last'.result = "NONE") ]_vars
    /\ (hsPc # "idle") ~> (hsPc = "idle")

\* a call that only heard an invalid value returned NONE at the timeout
C16_Witness ==
    /\ hsPc = "idle"
    /\ last.op = "sendWakeupAndWaitForResponse"
    /\ last.status = "Completed"
    /\ hsDeadline
    /\ heard # <<>>
    /\ ValidResponses(heard) = {}
    /\ last.result = "NONE"

-----------------------------------------------------------------------------
(* Claims on sendMessage *)

\* the step in which a frame is handed to NotifyValueAsync
FrameSubmitted == Len(submitted') = Len(submitted) + 1

\* the step in which sendMessage returns
SendReturns == smPc # "idle" /\ smPc' = "idle"

FailedOperation(op) ==
    \/ op.status \in {"Error", "Canceled"}
    \/ op.status = "Completed" /\ ~op.allSuccess

\* C17: during sendMessage at most 3 submitted operations are not yet retired,
\* and a frame is submitted only when fewer than 3 are in flight.
C17_WindowBounded ==
    /\ [](Len(pendingOps) <= 3)
    /\ [][ FrameSubmitted => Len(pendingOps) < 3 ]_vars

\* the fourth frame went out after the full window had been polled
C17_Witness ==
    /\ smPc = "checkSubscribed"
    /\ Len(submitted) = 4
    /\ Len(pendingOps) = 3

\* C18: when the window-full wait polls an operation that is in Error or
\* Canceled state, or completed with a notification result other than
\* success, sendMessage returns false and submits no further frame.
C18_FailureAborts ==
    [][ (/\ smPc = "poll"
         /\ smIt <= Len(pendingOps)
         /\ FailedOperation(opStatus[pendingOps[smIt]])
         /\ <<smPc, smIt, pendingOps>>' # <<smPc, smIt, pendingOps>>) =>
            /\ smPc' = "idle"
            /\ last'.op = "sendMessage"
            /\ last'.result = FALSE
            /\ submitted' = submitted ]_vars

\* a send gave up on a failed operation with one frame still unsent
C18_Witness ==
    /\ smPc = "idle"
    /\ last.op = "sendMessage"
    /\ last.reason = "operationFailed"
    /\ last.result = FALSE
    /\ last.submitted = 3
    /\ last.total = 4
    /\ Len(submitted) = 3

\* C19 as stated: once the subscription flag has turned false during the
\* frame loop, no frame is submitted any more and the call returns false.
C19_NoFrameAfterLoss ==
    [][ /\ FrameSubmitted => afterLoss < 0
        /\ (SendReturns /\ afterLoss >= 0) => last'.result = FALSE ]_vars

\* C19 amended: sendMessage reads the flag on entry and after each submitted
\* frame; when it reads false it returns false and submits nothing more, so
\* at most one frame is submitted after the flag turned false and stayed
\* false, and such a call returns false.
C19_AbortAtNextCheck ==
    /\ [](afterLoss <= 1)
    /\ [][ (/\ smPc = "checkSubscribed"
             /\ smPc' # "checkSubscribed"
             /\ ~hasSubscribedClients) =>
                /\ smPc' = "idle"
                /\ last'.result = FALSE
                /\ submitted' = submitted ]_vars
    /\ [][ (SendReturns /\ afterLoss >= 0) => last'.result = FALSE ]_vars

\* the flag turned false between two frames; the next frame was still sent
C19_Witness ==
    /\ smPc = "idle"
    /\ last.op = "sendMessage"
    /\ last.reason = "disconnected"
    /\ last.result = FALSE
    /\ afterLoss = 1
    /\ last.submitted = 2
    /\ last.total = 4

\* C20: once every frame was submitted and the flag was still set at the last
\* check, sendMessage returns true, whatever the final wait observes.
C20_DrainNeverFails ==
    [][ (smPc \in {"drain", "drainPoll"} /\ smPc' = "idle") =>
            /\ last'.op = "sendMessage"
            /\ last'.result = TRUE
            /\ last'.submitted = last'.total ]_vars

\* true was returned after a failure was seen and with an operation still
\* pending at the 5 s timeout
C20_Witness ==
    /\ smPc = "idle"
    /\ last.op = "sendMessage"
    /\ last.result = TRUE
    /\ last.drainFailure
    /\ last.pending > 0
    /\ last.submitted = 4

-----------------------------------------------------------------------------
\* C21: every call to sendMessage that reached its send loop returns, whatever
\* the notification operations do, also when they stay Started for ever.
C21_SendMessageReturns ==
    (smPc \in {"window", "poll", "submit", "checkSubscribed", "drain", "drainPoll"})
        ~> (smPc = "idle")

-----------------------------------------------------------------------------
\* what a receiver that frames by the length field hands to the callback for
\* a frame of the peer
FramedMessage(frame) ==
    [contentType |-> frame[7],
     payload |-> decrypt(deriveSymmetricKey(PeerPassword),
                         Slice(frame, HEADER_SIZE, bytesToUint32(frame, 0)))]

\* the frames of the peer that have arrived completely
FramesArrived ==
    LET ks == { k \in 0..Len(sentFrames) : Boundary(k) <= arrived }
    IN  CHOOSE k \in ks : \A j \in ks : j <= k

\* C22: on a connection carrying valid frames only, however recv cuts the
\* stream, the callback has been given exactly the frames that arrived
\* completely, in arrival order, and messageBuffer holds the bytes that follow
\* the last of them.
C22_FramesDelimitedByLength ==
    (/\ symmetricKey = deriveSymmetricKey(PeerPassword)
     /\ \A i \in 1..Len(sentFrames) : sentFrames[i] \in TcpValidFrames)
    => /\ received = [i \in 1..FramesArrived |-> FramedMessage(sentFrames[i])]
       /\ messageBuffer = Slice(Stream, Boundary(FramesArrived), arrived)

\* C23: when every recv returned exactly one frame, all frames have arrived
\* and the loop is back at recv, every valid frame of the peer was handed to
\* the callback, also those that followed a frame that failed to decode.
C23_FailedFrameDropped ==
    (/\ symmetricKey = deriveSymmetricKey(PeerPassword)
     /\ aligned
     /\ arrived = Len(Stream)
     /\ tcpPc = "recv")
    => \A i \in 1..Len(sentFrames) :
          sentFrames[i] \in TcpValidFrames
          => \E j \in 1..Len(received) : received[j] = FramedMessage(sentFrames[i])

-----------------------------------------------------------------------------
\* C24: at no time are two threads inside decodeData or cleanupPartialMessages.
C24_MapAccessSerialized ==
    Cardinality({ t \in DecodeThreads : inside[t] \in InMap }) <= 1

-----------------------------------------------------------------------------
\* C25: encodeMessage calls made one after the other obtain the ids 0, 1, 2,
\* ... in that order, and every frame a call returns carries the call's id.
C25_IdsCountUp ==
    /\ issued = [i \in 1..Len(issued) |-> i - 1]
    /\ nextTransferId = Len(issued)
    /\ (last.op = "encodeMessage" /\ last.returned)
       => /\ last.transferId = issued[Len(issued)]
          /\ \A i \in 1..Len(last.result) :
                FrameTransferId(last.result[i]) = last.transferId

\* a second call has returned several frames
C25_Witness ==
    /\ last.op = "encodeMessage"
    /\ last.returned
    /\ last.transferId = 1
    /\ Len(last.result) >= 2
    /\ issued = <<0, 1>>

-----------------------------------------------------------------------------
\* C26: no two encodeMessage calls of the process obtain the same id, also
\* when they run on different threads at the same time.
C26_IdsUnique ==
    \A i, j \in 1..Len(issued) : i # j => issued[i] # issued[j]

-----------------------------------------------------------------------------
\* the value of bytes[k], ..., bytes[k + n - 1] read most significant byte first,
\* as halves (n = 4) or as a number (n = 2)
BigEndian32(bytes, k) ==
    U32(bytes[k + 1] * 256 + bytes[k + 2], bytes[k + 3] * 256 + bytes[k + 4])

BigEndian16(bytes, k) == bytes[k + 1] * 256 + bytes[k + 2]

\* C27: uint32ToBytes(v) is four bytes with v's big-endian value, and decoding
\* them at offset 0 gives v back; likewise for 16 bits; a decode at offset k
\* with enough bytes succeeds with the big-endian value of the bytes from k.
C27_BigEndianRoundTrip ==
    /\ last.op = "uint32ToBytes"
       => /\ Len(last.result) = 4
          /\ \A i \in 1..4 : last.result[i] \in Byte
          /\ BigEndian32(last.result, 0) = last.value
          /\ last.back = last.value
    /\ last.op = "uint16ToBytes"
       => /\ Len(last.result) = 2
          /\ \A i \in 1..2 : last.result[i] \in Byte
          /\ BigEndian16(last.result, 0) = last.value
          /\ last.back = last.value
    /\ (last.op = "bytesToUint32" /\ last.offset >= 0
          /\ last.offset + 4 <= Len(last.bytes))
       => /\ last.ok
          /\ last.value = BigEndian32(last.bytes, last.offset)
          /\ last.plain = last.value
    /\ (last.op = "bytesToUint16" /\ last.offset >= 0
          /\ last.offset + 2 <= Len(last.bytes))
       => /\ last.ok
          /\ last.value = BigEndian16(last.bytes, last.offset)
          /\ last.plain = last.value

\* 0xDEADBEEF went through uint32ToBytes and back
C27_Witness ==
    /\ last.op = "uint32ToBytes"
    /\ last.value = U32(57005, 48879)
    /\ last.result = <<222, 173, 190, 239>>
    /\ last.back = last.value

-----------------------------------------------------------------------------
\* C28: whenever fewer than 4 (2) bytes lie at and after the offset, the
\* flag-returning overload returns false and leaves the value as it was, the
\* convenience overload returns 0, and nothing outside the vector is read.
\* An offset held as -k is 2^w - k, beyond every vector.
C28_ShortInputFails ==
    /\ (last.op = "bytesToUint32"
          /\ (last.offset < 0 \/ Len(last.bytes) < last.offset + 4))
       => /\ ~last.ok
          /\ last.value = last.before
          /\ last.plain = U32(0, 0)
          /\ InBounds(last.bytes, last.reads)
    /\ (last.op = "bytesToUint16"
          /\ (last.offset < 0 \/ Len(last.bytes) < last.offset + 2))
       => /\ ~last.ok
          /\ last.value = last.before
          /\ last.plain = 0
          /\ InBounds(last.bytes, last.reads)

-----------------------------------------------------------------------------
\* C29: when decodeData hands the bytes of a multi-chunk transfer to decrypt,
\* it holds one chunk for each index 0..totalChunks-1, and the bytes are those
\* chunks' payloads in ascending index order.
C29_ReassemblyComplete ==
    IF last.op = "decodeData" /\ "chunks" \in DOMAIN last
    THEN LET totalChunks == FrameTotalChunks(last.data)
         IN  /\ Len(last.chunks) = totalChunks
             /\ \A i \in 1..Len(last.chunks) : last.chunks[i].chunkIndex = i - 1
             /\ last.handed = Payloads(last.chunks)
    ELSE TRUE

-----------------------------------------------------------------------------
\* C30: a chunk received again for the same transferId and chunkIndex takes
\* the place of the stored one: no transfer holds two chunks of one index.
C30_DuplicateOverwrites ==
    \A id \in DOMAIN partialMessages :
        \A i, j \in 1..Len(partialMessages[id]) :
            i # j => partialMessages[id][i].chunkIndex # partialMessages[id][j].chunkIndex

-----------------------------------------------------------------------------
\* Chunks of several transfers arriving interleaved, with the key set or not

\* a chunk for PeerAbandoned's transferId that announces two chunks, not three
PeerConflicting ==
    Frame(HEADER_SIZE + 4, PROTOCOL_VERSION, 1, 1, 1, 2, <<5, 6, 7, 8>>)

InterleavedFrames == StaleFrames \cup { PeerConflicting }

ReceiveInterleaved ==
    /\ StoredChunks < MaxStored
    /\ \E data \in InterleavedFrames : decodeData(data)
    /\ UNCHANGED <<wire, delivered, bleVars, appVars>>

NextInterleaved == Unlock \/ Tick \/ ReceiveInterleaved

SpecInterleaved == Init /\ [][NextInterleaved]_vars

-----------------------------------------------------------------------------
\* C31: a transfer's totalChunks is the one its first chunk announced, and
\* completion is judged against it: when every chunk stored for a transfer
\* announces the same totalChunks T, a further chunk of that transfer brings
\* about reassembly only of T chunks, whatever totalChunks it announces itself.
C31_TotalChunksFixed ==
    [][ReceiveInterleaved =>
        LET id == FrameTransferId(last'.data)
            stored == ChunksOf(partialMessages, id)
        IN  (/\ "chunks" \in DOMAIN last'
             /\ stored # <<>>
             /\ \A i \in 1..Len(stored) : stored[i].totalChunks = stored[1].totalChunks)
            => Len(last'.chunks) = stored[1].totalChunks]_vars

-----------------------------------------------------------------------------
\* C32: the decodeData call that brings a transfer to totalChunks chunks removes
\* the transfer's chunks and its timestamp, whether decrypt succeeds or fails.
C32_CompletedTransferRemoved ==
    IF last.op = "decodeData" /\ "chunks" \in DOMAIN last
    THEN LET id == FrameTransferId(last.data)
         IN  /\ ~Has(partialMessages, id)
             /\ ~Has(partialMessageTimestamps, id)
    ELSE TRUE

-----------------------------------------------------------------------------
\* C38: a decodeData call for one transferId leaves the chunks and the timestamp
\* of every other transfer as they were, whether it stores a chunk, completes
\* its transfer or fails, and what it reassembles are chunks of its own
\* transferId: the ones stored for it and the one that arrived.
C38_TransfersIsolated ==
    [][ReceiveInterleaved =>
        LET id == FrameTransferId(last'.data)
            stored == ChunksOf(partialMessages, id)
        IN  /\ \A other \in DOMAIN partialMessages \ {id} :
                /\ Has(partialMessages', other)
                /\ partialMessages'[other] = partialMessages[other]
            /\ \A other \in DOMAIN partialMessageTimestamps \ {id} :
                /\ Has(partialMessageTimestamps', other)
                /\ partialMessageTimestamps'[other] = partialMessageTimestamps[other]
            /\ "chunks" \in DOMAIN last' =>
                /\ Len(last'.chunks) = Len(stored) + 1
                /\ \A i \in 1..Len(last'.chunks) :
                    /\ last'.chunks[i].transferId = id
                    /\ \/ \E j \in 1..Len(stored) : stored[j] = last'.chunks[i]
                       \/ last'.chunks[i].chunkIndex = FrameChunkIndex(last'.data)]_vars

\* a transfer was completed and returned while another transfer's chunk,
\* stored at an earlier time, is still held
C38_Witness ==
    /\ last.op = "decodeData"
    /\ "chunks" \in DOMAIN last
    /\ last.result # NULL
    /\ \E other \in DOMAIN partialMessages :
        /\ other # FrameTransferId(last.data)
        /\ partialMessageTimestamps[other] < now

-----------------------------------------------------------------------------
\* The staleness sweep over time: chunks arrive through the BLE write handler
\* (AbandonedChunkWritten), a TCP client may be connected and send, and the sweep runs
\* where the code calls it, after each recv of handleClient

\* staleness windows the clock may run through
MaxPeriods == 2

\* more than the staleness window of handleClient's sweep goes by
WindowElapses ==
    /\ ~crashed
    /\ now < MaxPeriods * (PARTIAL_MAX_AGE + 1)
    /\ now' = now + PARTIAL_MAX_AGE + 1
    /\ UNCHANGED <<symmetricKey, activePassword, nextTransferId, partialMessages,
                   partialMessageTimestamps, crashed, cipher, last, wire,
                   delivered, bleVars, appVars>>

\* a chunk of a transfer the peer never finishes is written to the BLE data
\* characteristic
AbandonedChunkWritten ==
    /\ StoredChunks < MaxStored
    /\ decodeData(PeerAbandoned)
    /\ UNCHANGED <<wire, delivered, bleVars, appVars>>

\* a TCP client writes its one message to the connection
ClientSends ==
    /\ tcpPc # "closed"
    /\ symmetricKey # <<>>
    /\ sentFrames = <<>>
    /\ sentFrames' = <<PeerShort[1]>>
    /\ UNCHANGED <<coreVars, bleVars, tcpPc, messageBuffer, arrived, received,
                   aligned, threadVars, clipVars>>

NextStale ==
    \/ Unlock \/ AbandonedChunkWritten \/ WindowElapses
    \/ ClientSends \/ HandleClientRecv \/ HandleClientCleanup \/ HandleClientClosed

\* the clock runs and a handleClient thread that received goes on to its sweep;
\* whether a peer connects or sends is up to the peer
SpecStale ==
    Init /\ [][NextStale]_vars /\ WF_vars(WindowElapses) /\ WF_vars(HandleClientCleanup)

Stale(id) ==
    /\ Has(partialMessages, id)
    /\ Has(partialMessageTimestamps, id)
    /\ now - partialMessageTimestamps[id] > PARTIAL_MAX_AGE

\* C33: a transfer that has had no chunk for longer than the staleness window
\* does not stay: a sweep removes it (or a further chunk refreshes it), through
\* whichever transport its chunks came and with or without a TCP client.
C33_StaleTransferSwept ==
    \A id \in 0..MaxTransfers : Stale(id) ~> ~Stale(id)

-----------------------------------------------------------------------------
\* C34: BLE chunking cuts at byte counts, whatever the bytes are: the L > 0
\* bytes carried by the frames of a returned BLE encoding lie in exactly
\* ceil(L / 512) frames, each but the last carrying exactly 512 bytes.
C34_PlainByteBoundaries ==
    (EncodeReturnedFrames /\ last.transport = BLE) =>
        LET frames == last.result
            n == Len(frames)
            L == Len(Concat([i \in 1..n |-> FramePayload(frames[i])]))
        IN  /\ n = (L + BLE_MAX_CHUNK_SIZE - 1) \div BLE_MAX_CHUNK_SIZE
            /\ \A i \in 1..(n - 1) :
                  Len(FramePayload(frames[i])) = BLE_MAX_CHUNK_SIZE

-----------------------------------------------------------------------------
\* C37: encodeMessage for BLE returns for every payload, and when a key is set
\* the chunks it produced are non-empty and concatenate, in order, to the bytes
\* that were chunked; so also for a payload with a run of bytes 0x80..0xBF
\* longer than the chunk size.
C37_ChunkingTerminates ==
    (last.op = "encodeMessage" /\ last.transport = BLE) =>
        /\ last.returned
        /\ ~crashed
        /\ last.keyBefore # <<>> =>
              LET frames == last.result
              IN  /\ \A i \in 1..Len(frames) : FramePayload(frames[i]) # <<>>
                  /\ Concat([i \in 1..Len(frames) |-> FramePayload(frames[i])])
                        = last.payload

-----------------------------------------------------------------------------
\* C35: the preference a sendWakeupAndWaitForResponse call returns comes from
\* a write the peer made after this call's wakeup notification was sent: not
\* from a write made before the notification went out, and not from a write
\* made during an earlier call whose handler stored it only now.
C35_ResponseFollowsWakeup ==
    [][ (WaitReturns /\ last'.result # "NONE") =>
          LET latest == CHOOSE i \in ValidResponses(heard) :
                            \A j \in ValidResponses(heard) : j <= i
          IN  /\ ValidResponses(heard) # {}
              /\ ~heard[latest].early ]_vars

-----------------------------------------------------------------------------
\* C36 as stated: the delay starts at 20 ms, is one of 1, 20 and 50 ms, and a
\* speed calculation selects 50 ms at 5000 bytes/s or less, 1 ms at 20000
\* bytes/s or more, and 20 ms in between.
C36_DelayTiersInclusive ==
    /\ [](delayBetweenChunks \in {1, 20, 50})
    /\ [][ SmCallLong => delayBetweenChunks' = 20 ]_vars
    /\ [][ (FrameSubmitted /\ speedCalculated(smI) /\ measured' > 0) =>
             delayBetweenChunks' =
                IF totalBytesSent' * 1000 <= 5000 * measured' THEN 50
                ELSE IF totalBytesSent' * 1000 >= 20000 * measured' THEN 1
                ELSE 20 ]_vars

\* C36 amended: the delay starts at 20 ms and is one of 1, 20 and 50 ms; after
\* the frames of index 5, 10, ... and when at least 1 ms has gone by since the
\* start, it is selected from the bytes sent per second so far: below 5000
\* selects 50 ms, above 20000 selects 1 ms, and everything from 5000 to 20000,
\* both included, selects 20 ms; after every other frame it stays as it is.
C36_DelayTiers ==
    /\ [](delayBetweenChunks \in {1, 20, 50})
    /\ [][ SmCallLong => delayBetweenChunks' = 20 ]_vars
    /\ [][ FrameSubmitted =>
             delayBetweenChunks' =
                IF speedCalculated(smI) /\ measured' > 0
                THEN IF totalBytesSent' * 1000 < 5000 * measured' THEN 50
                     ELSE IF totalBytesSent' * 1000 > 20000 * measured' THEN 1
                     ELSE 20
                ELSE delayBetweenChunks ]_vars

\* six frames of 2680 bytes went out in 536 ms, which is 5000 bytes/s, and
\* the delay is 20 ms
C36_Witness ==
    /\ Len(submitted) = 6
    /\ totalBytesSent = 2680
    /\ measured = 536
    /\ delayBetweenChunks = 20

-----------------------------------------------------------------------------
\* C39: sendMessage hands the frames to NotifyValueAsync in ascending
\* chunkIndex order from 0 on, no frame twice, and when it returns true every
\* frame of the message was handed over exactly once.
C39_FramesInOrderOnce ==
    /\ \A k \in 1..Len(submitted) :
          /\ submitted[k] = k - 1
          /\ k <= Len(encodedChunks)
          /\ FrameChunkIndex(encodedChunks[k]) = k - 1
    /\ (smPc = "idle" /\ last.op = "sendMessage" /\ last.result = TRUE) =>
          /\ Len(encodedChunks) >= 1
          /\ Len(submitted) = Len(encodedChunks)
          /\ last.submitted = last.total

\* a message of four frames was sent and true returned
C39_Witness ==
    /\ smPc = "idle"
    /\ last.op = "sendMessage"
    /\ last.result = TRUE
    /\ submitted = <<0, 1, 2, 3>>
    /\ Len(encodedChunks) = 4

-----------------------------------------------------------------------------
\* C40: however the thread applying a remote message and the window thread
\* interleave, the clipboard update caused by applying a remote message does
\* not reach updateCallback, and the update that the ignore flag swallows is
\* never one caused by a local change.
C40_NoEchoNoLoss ==
    /\ \A i \in 1..Len(callbacks) : callbacks[i].cause = "local"
    /\ "local" \notin ignoredCauses

====
